---- MODULE Spec2Model ----
(***************************************************************************)
(* A model of the reflective dependency-injection container of             *)
(* injection-js: ReflectiveInjector_ (lazy singleton construction, the     *)
(* construction-counter cycle guard, parent delegation), NullInjector and  *)
(* the key registry.  Every public operation is one action; the recursive  *)
(* calls a `get` makes are RECURSIVE operators threading the mutable state *)
(* (the "world" w) through the call tree exactly in the order of the code. *)
(***************************************************************************)
EXTENDS Integers, Sequences, FiniteSets, TLC

\* ------------------------------------------------------------- bounds
\* Number of reflective containers that may be created.
MaxInj == 2
\* Public calls are issued on a container while its constructionCounter is
\* below this value (the counter itself is unbounded in the code).
MaxCounter == 3
\* instantiateResolved is called while the factories have produced fewer
\* objects than this (every call of it produces new ones).
MaxHeap == 2
\* Number of containers created without a reflective parent.
MaxRoots == 1
\* Number of classes that may be declared.
MaxTypes == 3

\* ------------------------------------------------------------- values
\* Every JavaScript value the model handles is a record [tag, n]; objects
\* produced by factories and arrays produced by multi-providers are
\* references (n is the address in `heap`), so `===` is record equality.
V(tag, n) == [tag |-> tag, n |-> n]

UNDEFINED == V("UNDEFINED", 0)
THROW_IF_NOT_FOUND == V("THROW_IF_NOT_FOUND", 0)
Injector_THROW_IF_NOT_FOUND == V("Injector.THROW_IF_NOT_FOUND", 0)
undefined == V("undefined", 0)
null == V("null", 0)
fallback == V("string", 1)
\* A call that passes no second argument.
NO_ARG == V("no argument", 0)
Obj(n) == V("object", n)
InjRef(i) == V("injector", i)
Thrown(pid) == V("thrown", pid)

\* A parameter with a default value takes the default when the argument is
\* missing or is `undefined`.
DefaultParam(arg, dflt) == IF arg \in {NO_ARG, undefined} THEN dflt ELSE arg

\* ------------------------------------------------------------- state
VARIABLES
  injs,       \* the reflective containers, in creation order
  heap,       \* heap[n]: who produced object n and from which arguments
  allKeys,    \* the global key registry (globalKeyRegistry.allKeys)
  otherKeys,  \* allKeys of a second registry, made by `new KeyRegistry()`
  stores,     \* stores[i][s]: how often slot s of container i was assigned
  types,      \* the declared classes with their own metadata, in order
  last        \* the last public call and its outcome

vars == <<injs, heap, allKeys, otherKeys, stores, types, last>>

\* ------------------------------------------------------------- keys
\* The registry maps a token to its key; allKeys lists the entries of the
\* map, the keys, in insertion order.
Key(token, id) == [token |-> token, id |-> id]

IndexOf(seq, x) == CHOOSE k \in 1..Len(seq) : seq[k] = x

Has(seq, x) == \E k \in 1..Len(seq) : seq[k] = x

\* The tokens the map has an entry for, in insertion order.
TokensOf(keys) == [k \in 1..Len(keys) |-> keys[k].token]

\* A size that counts one entry too many.
numberOfKeysPlusOne(keys) == Len(keys) + 1

numberOfKeys(keys) == Len(keys)

\* The static getter ReflectiveKey.numberOfKeys: the size of the global
\* registry, whichever registry asks.
ReflectiveKey_numberOfKeys(keys) == numberOfKeys(allKeys)

\* Tokens that are falsy: the empty string, and undefined.
FalsyTokens == {"", "undefined"}

\* new ReflectiveKey(token, id): throws when the token is falsy.
ReflectiveKey(token, id) ==
  [threw |-> token \in FalsyTokens, key |-> Key(token, id)]

\* What a caller hands to the registry: a token, or a ReflectiveKey.
Token(token) == [instanceofReflectiveKey |-> FALSE, token |-> token, id |-> 0]

AKey(key) ==
  [instanceofReflectiveKey |-> TRUE, token |-> key.token, id |-> key.id]

\* A registry that makes room for the new key before it constructs it.
KeyRegistry_setSetsFirst(keys, newKey) ==
  [allKeys |-> Append(keys, newKey.key), key |-> newKey.key,
   threw |-> newKey.threw]

\* `const newKey = new ReflectiveKey(...); this.allKeys.set(token, newKey)`:
\* nothing is stored when the constructor threw.
KeyRegistry_set(keys, newKey) ==
  IF newKey.threw
    THEN [allKeys |-> keys, key |-> newKey.key, threw |-> TRUE]
    ELSE [allKeys |-> Append(keys, newKey.key), key |-> newKey.key,
          threw |-> FALSE]

\* A registry that makes a new key at every lookup of a token.
KeyRegistry_getAlwaysNew(keys, token) ==
  IF token.instanceofReflectiveKey
    THEN [allKeys |-> keys, key |-> Key(token.token, token.id),
          threw |-> FALSE]
    ELSE KeyRegistry_set(keys,
                         ReflectiveKey(token.token,
                                       ReflectiveKey_numberOfKeys(keys)))

\* KeyRegistry.get: a key is returned as it is; otherwise the stored key of
\* a registered token, or a new key whose id is ReflectiveKey.numberOfKeys;
\* returns the registry as well.
KeyRegistry_get(keys, token) ==
  IF token.instanceofReflectiveKey
    THEN [allKeys |-> keys, key |-> Key(token.token, token.id),
          threw |-> FALSE]
    ELSE IF Has(TokensOf(keys), token.token)
      THEN [allKeys |-> keys,
            key |-> keys[IndexOf(TokensOf(keys), token.token)],
            threw |-> FALSE]
      ELSE KeyRegistry_set(keys,
                           ReflectiveKey(token.token,
                                         ReflectiveKey_numberOfKeys(keys)))

\* Keys of the tokens the providers below were resolved with, registered in
\* this order before any container exists.
InitialKeys ==
  <<Key("Injector", 0), Key("A", 1), Key("B", 2), Key("C", 3)>>

INJECTOR_KEY == Key("Injector", 0)
KA == Key("A", 1)
KB == Key("B", 2)
KC == Key("C", 3)

\* Tokens a caller may ask for; "X" is bound nowhere and gets its key at the
\* first lookup.
Tokens == {"A", "B", "C", "Injector"}
AllTokens == Tokens \cup {"X"}

\* Tokens looked up in the registry directly; "X", "Y" and "Z" get their
\* keys at the first lookup, the falsy tokens never get one.
RegistryTokens == {"A", "C", "X", "Y", "Z"} \cup FalsyTokens

\* ------------------------------------------------------------- providers
\* A resolved dependency, a resolved factory and a resolved provider.  `pid`
\* stands for the identity of the provider object; `mode` says what the
\* user's factory does when called: "ok" returns a new object, "flaky"
\* throws during the calls made while the environment is broken and returns
\* a new object otherwise; "value" and "alias" are the factories the
\* resolver builds for a value record and for an alias record.
Dep(key, optional, visibility) ==
  [key |-> key, optional |-> optional, visibility |-> visibility]

Fac(dependencies, mode) == [dependencies |-> dependencies, mode |-> mode]

Prov(pid, key, resolvedFactories, multiProvider) ==
  [pid |-> pid, key |-> key, resolvedFactories |-> resolvedFactories,
   multiProvider |-> multiProvider]

D(key) == Dep(key, FALSE, "none")

Single(pid, key, deps, mode) == Prov(pid, key, <<Fac(deps, mode)>>, FALSE)

pA == Single(1, KA, <<>>, "ok")
pB == Single(2, KB, <<>>, "ok")
pC == Single(3, KC, <<>>, "ok")
pA_B == Single(4, KA, <<D(KB)>>, "ok")
pB_A == Single(5, KB, <<D(KA)>>, "ok")
pA_A == Single(6, KA, <<D(KA)>>, "ok")
pA_flaky == Single(7, KA, <<>>, "flaky")
pB_C == Single(8, KB, <<D(KC)>>, "ok")
pC_flaky == Single(9, KC, <<>>, "flaky")
pC_A == Single(10, KC, <<D(KA)>>, "ok")
pB_multi == Prov(11, KB, <<Fac(<<>>, "ok"), Fac(<<>>, "flaky")>>, TRUE)

\* Providers whose dependency carries a visibility or is optional, and a
\* provider registered for the injector token itself.
pA_selfB == Single(12, KA, <<Dep(KB, FALSE, "Self")>>, "ok")
pA_selfBopt == Single(13, KA, <<Dep(KB, TRUE, "Self")>>, "ok")
pA_skipB == Single(14, KA, <<Dep(KB, FALSE, "SkipSelf")>>, "ok")
pA_skipBopt == Single(15, KA, <<Dep(KB, TRUE, "SkipSelf")>>, "ok")
pA_Bopt == Single(16, KA, <<Dep(KB, TRUE, "none")>>, "ok")
pC_inj ==
  Single(17, KC, <<Dep(INJECTOR_KEY, FALSE, "none"),
                   Dep(INJECTOR_KEY, FALSE, "Self"),
                   Dep(INJECTOR_KEY, FALSE, "SkipSelf")>>, "ok")
pInj == Single(18, INJECTOR_KEY, <<>>, "ok")

\* A value provider and an alias of B.
pC_value == Single(19, KC, <<>>, "value")
pC_aliasB == Single(20, KC, <<D(KB)>>, "alias")

pA_Bflaky == Single(21, KA, <<D(KB)>>, "flaky")
pA_BC == Single(22, KA, <<D(KB), D(KC)>>, "ok")

\* The resolved-provider lists containers are created from.
ProviderLists ==
  { <<>>,
    <<pA>>,
    <<pB>>,
    <<pA_B, pB>>,
    <<pA_B>>,
    <<pA_flaky>>,
    <<pA_A>>,
    <<pA_B, pB_A>>,
    <<pC, pA_B, pB_A>>,
    <<pA_B, pB_C, pC_A>>,
    <<pA_B, pB_C, pC_flaky>>,
    <<pA_B, pB_multi>> }

\* The lists child containers are created from.
ChildLists ==
  { <<pB>>, <<pA_B>>, <<pA_flaky>>, <<pA_A>>, <<pA_B, pB_A>> }

\* The lists of the specifications that vary the caller's arguments
\* (SpecNotFound) or add instantiateResolved (SpecAll).
FewLists == { <<>>, <<pA>>, <<pB>> }
SomeLists == { <<pA_B, pB>>, <<pB>>, <<pC_flaky>> }

\* ------------------------------------------------------------- resolver
\* Provider declarations as the caller supplies them: a declaration (did is
\* its identity), a nested array of declarations, or null.
Decl(did, token, deps, mode, multi) ==
  [kind |-> "decl", did |-> did, token |-> token, deps |-> deps,
   mode |-> mode, multi |-> multi]

List(items) == [kind |-> "list", items |-> items]

Null == [kind |-> "null"]

\* The full flatten, depth first and left to right, dropping null.
RECURSIVE flatten(_)
RECURSIVE flattenItems(_, _)
flatten(x) ==
  IF x.kind = "list"
    THEN flattenItems(x.items, 1)
    ELSE IF x.kind = "null" THEN <<>> ELSE <<x>>

flattenItems(items, k) ==
  IF k > Len(items)
    THEN <<>>
    ELSE flatten(items[k]) \o flattenItems(items, k + 1)

\* One declaration resolved: its key, one factory (which remembers the
\* declaration it was built from) and the multi flag.
resolveReflectiveProvider(keys, d) ==
  Prov(100 + d.did, KeyRegistry_get(keys, Token(d.token)).key,
       <<[dependencies |-> d.deps, mode |-> d.mode, decl |-> d.did]>>,
       d.multi)

\* A grouping in which the first non-multi declaration of a key stays.
RECURSIVE mergeFirstWins(_, _, _)
mergeFirstWins(resolved, k, acc) ==
  IF k > Len(resolved)
    THEN acc
    ELSE IF \A j \in 1..Len(acc) : acc[j].key # resolved[k].key
      THEN mergeFirstWins(resolved, k + 1, Append(acc, resolved[k]))
      ELSE mergeFirstWins(resolved, k + 1,
             [j \in 1..Len(acc) |->
                IF acc[j].key = resolved[k].key /\ resolved[k].multiProvider
                  THEN [acc[j] EXCEPT !.resolvedFactories =
                          @ \o resolved[k].resolvedFactories]
                  ELSE acc[j]])

\* Grouping by key, in first-encountered order: the factories of multi
\* declarations accumulate in encounter order, a later non-multi
\* declaration replaces the earlier one.
RECURSIVE mergeResolvedReflectiveProviders(_, _, _)
mergeResolvedReflectiveProviders(resolved, k, acc) ==
  IF k > Len(resolved)
    THEN acc
    ELSE IF \A j \in 1..Len(acc) : acc[j].key # resolved[k].key
      THEN mergeResolvedReflectiveProviders(resolved, k + 1,
                                            Append(acc, resolved[k]))
      ELSE mergeResolvedReflectiveProviders(resolved, k + 1,
             [j \in 1..Len(acc) |->
                IF acc[j].key # resolved[k].key
                  THEN acc[j]
                  ELSE IF resolved[k].multiProvider
                    THEN [acc[j] EXCEPT !.resolvedFactories =
                            @ \o resolved[k].resolvedFactories]
                    ELSE resolved[k]])

\* resolve(declarations)
resolveReflectiveProviders(keys, declarations) ==
  mergeResolvedReflectiveProviders(
    [k \in 1..Len(flatten(List(declarations))) |->
       resolveReflectiveProvider(keys, flatten(List(declarations))[k])],
    1, <<>>)

dA == Decl(1, "A", <<>>, "ok", FALSE)
dA_B == Decl(2, "A", <<D(KB)>>, "ok", FALSE)
m1 == Decl(3, "B", <<>>, "ok", TRUE)
m2 == Decl(4, "B", <<>>, "flaky", TRUE)
m3 == Decl(5, "B", <<>>, "ok", TRUE)
m4 == Decl(6, "B", <<D(KA)>>, "ok", TRUE)
dA2 == Decl(7, "A", <<>>, "ok", FALSE)

\* The declaration lists containers are resolved and created from.
DeclLists ==
  { <<m1, m2, m3>>,
    <<m1, List(<<m2, List(<<m3>>)>>)>>,
    <<List(<<m1, dA>>), Null, List(<<m2>>)>>,
    <<dA, List(<<m1>>)>>,
    <<List(<<List(<<m2>>), m1>>), m3>>,
    <<dA_B, m3, List(<<Null, m1>>)>>,
    <<m4, dA, List(<<m1>>)>>,
    <<dA, dA2>>,
    <<List(<<dA2>>), m1, List(<<dA_B, Null, List(<<dA>>)>>)>> }

\* The lists of the specification that varies visibility and optionality.
VisRootLists ==
  { <<>>, <<pB>>, <<pA_skipB, pB>>, <<pA_selfB>>, <<pA_Bopt>>, <<pA_B>>,
    <<pC_inj, pInj>> }
VisChildLists ==
  { <<pA_selfB>>, <<pA_selfBopt>>, <<pA_skipB, pB>>, <<pA_skipBopt, pB>>,
    <<pA_Bopt>>, <<pA_skipB>>, <<pC_inj>> }

\* The lists of the specification in which a parent and its child bind the
\* same tokens.
TreeRootLists ==
  { <<pA, pB_A>>, <<pA_B, pB>>, <<pB>>, <<pA>>, <<pC_inj>>, <<pA_B>> }
TreeChildLists ==
  { <<>>, <<pA_B>>, <<pB>>, <<pA>>, <<pA, pB>> }

\* The lists of the specification that creates containers in all four ways.
LazyLists == { <<pC, pA_B, pB>>, <<pB>>, <<pC_flaky>> }
LazyDeclLists == { <<dA_B, m3, List(<<Null, m1>>)>>, <<dA, dA2>> }

\* The lists and declarations of the specification of instantiateResolved
\* and resolveAndInstantiate.
InstLists == { <<pA_B, pB>>, <<pA, pB_A>>, <<pC_value>>, <<pC_flaky>> }
InstDecls == { dA, dA_B }

\* The lists of the specification of failures that come after a dependency
\* was constructed.
RetryLists == { <<pA_Bflaky, pB>>, <<pA_BC, pB, pC_flaky>>, <<pB>> }

\* Tokens looked up in the second registry.
OtherTokens == {"X", "Y", "Z", "A", ""}

\* Resolved-provider lists with two entries of the same key.
DupLists ==
  { <<pA, pA_flaky>>, <<pA_flaky, pA>>, <<pA_B, pB, pA>>,
    <<pB, pA_B, pB_multi>> }

\* Second arguments a caller may pass to get.
NotFoundArgs == {NO_ARG, fallback}
AllNotFoundArgs ==
  {NO_ARG, undefined, null, fallback, Injector_THROW_IF_NOT_FOUND}

\* Parents: 0 is "no parent" (null), NullParent is Injector.NULL, k > 0 is
\* the k-th reflective container.
NullParent == -1

\* ------------------------------------------------------------- reflection
\* A class as the reflector sees it: its parent constructor (0 is Object),
\* the form of its source text (what toString() returns), the metadata
\* the decorators stored on the class itself, and function.length.
\* A metadata entry is [defined, list]; an entry of the annotations list is
\* [isNull, list].
Undefined == [defined |-> FALSE, list |-> <<>>]
Defined(list) == [defined |-> TRUE, list |-> list]
Annotations(list) == [isNull |-> FALSE, list |-> list]

Class(form, paramTypes, paramAnnotations, length) ==
  [form |-> form, paramTypes |-> paramTypes,
   paramAnnotations |-> paramAnnotations, length |-> length]

\* The forms of source text:
\*   "class"               class X { ... }
\*   "extendsNoCtor"       class X extends P { other(){} }
\*   "extendsNoCtorNamesCtor"
\*                         class X extends P
\*                           { clone(){ return new this.constructor() } }
\*   "extendsCtor"         class X extends P { constructor(c){ super() } }
\*   "extendsDelegateCtor" class X extends P
\*                           { constructor(){ super(...arguments); this.x=10 } }
\*   "es5Delegate"         function X() { return _super.apply(this, arguments) }
\*   "es5Ctor"             function X(c) { return _super.call(this, null) }
RootForms == {"class"}
ChildForms ==
  {"extendsNoCtor", "extendsNoCtorNamesCtor", "extendsCtor",
   "extendsDelegateCtor", "es5Delegate", "es5Ctor"}

\* The regular expressions, by the forms they match.
ES5_DELEGATE_CTOR(typeStr) == typeStr = "es5Delegate"

ES2015_INHERITED_CLASS(typeStr) ==
  typeStr \in {"extendsNoCtor", "extendsNoCtorNamesCtor", "extendsCtor",
               "extendsDelegateCtor"}

\* `[\s\S]*constructor\s*\(` matches the text "constructor(" anywhere in
\* the body, a call `this.constructor()` included.
ES2015_INHERITED_CLASS_WITH_CTOR(typeStr) ==
  typeStr \in {"extendsNoCtorNamesCtor", "extendsCtor", "extendsDelegateCtor"}

ES2015_INHERITED_CLASS_WITH_DELEGATE_CTOR(typeStr) ==
  typeStr = "extendsDelegateCtor"

isDelegateCtor(typeStr) ==
  \/ ES5_DELEGATE_CTOR(typeStr)
  \/ ES2015_INHERITED_CLASS_WITH_DELEGATE_CTOR(typeStr)
  \/ (/\ ES2015_INHERITED_CLASS(typeStr)
      /\ ~ES2015_INHERITED_CLASS_WITH_CTOR(typeStr))

\* What parameters is called with: a class (n is its index in types) or a
\* value that is no function ({}, 1, null).
TypeRef(n) == [isFunction |-> TRUE, n |-> n]
NonType == [isFunction |-> FALSE, n |-> 0]

isType(v) == v.isFunction

\* getParentCtor: the constructor of the prototype's prototype, Object (0)
\* when there is none.
getParentCtor(ts, n) == ts[n].parent

\* One entry of the zipped list: the type unless it is missing or Object,
\* followed by the annotations of the parameter.
ZipEntry(paramTypes, paramAnnotations, k) ==
  (IF ~paramTypes.defined
     THEN <<>>
     ELSE IF paramTypes.list[k] \notin {"", "Object"}
       THEN <<paramTypes.list[k]>>
       ELSE <<>>)
  \o (IF /\ paramAnnotations.defined
          /\ k <= Len(paramAnnotations.list)
          /\ ~paramAnnotations.list[k].isNull
        THEN paramAnnotations.list[k].list
        ELSE <<>>)

\* An element of a parameter list: a zipped entry, or undefined.
Entry(list) == [undef |-> FALSE, list |-> list]
UndefinedEntry == [undef |-> TRUE, list |-> <<>>]

_zipTypesAndAnnotations(paramTypes, paramAnnotations) ==
  [k \in 1..(IF ~paramTypes.defined
               THEN Len(paramAnnotations.list)
               ELSE Len(paramTypes.list)) |->
     Entry(ZipEntry(paramTypes, paramAnnotations, k))]

\* What _ownParameters returns: null, or a list.
NullList == [isNull |-> TRUE, list |-> <<>>]
AList(list) == [isNull |-> FALSE, list |-> list]

\* _ownParameters(type, parentCtor): null for a delegating constructor,
\* else the zipped own metadata, else function.length times undefined.
_ownParameters(type) ==
  IF isDelegateCtor(type.form)
    THEN NullList
    ELSE IF type.paramTypes.defined \/ type.paramAnnotations.defined
      THEN AList(_zipTypesAndAnnotations(type.paramTypes,
                                         type.paramAnnotations))
      ELSE AList([k \in 1..type.length |-> UndefinedEntry])

\* parameters(type)
RECURSIVE parameters(_, _)
parameters(ts, v) ==
  IF ~isType(v)
    THEN <<>>
    ELSE IF _ownParameters(ts[v.n]).isNull
      THEN IF getParentCtor(ts, v.n) # 0
             THEN parameters(ts, TypeRef(getParentCtor(ts, v.n)))
             ELSE <<>>
      ELSE _ownParameters(ts[v.n]).list

\* The classes of the tests, and ES5 output of the same.
Parent ==
  Class("class", Defined(<<"A", "B">>),
        Defined(<<Annotations(<<"@a">>), Annotations(<<"@b">>)>>), 2)
NoDecorators == Class("class", Undefined, Undefined, 0)
Child == Class("extendsNoCtor", Undefined, Undefined, 0)
ChildWithDecorator == Class("extendsNoCtor", Defined(<<>>), Undefined, 0)
ChildWithDecoratorAndProps ==
  Class("extendsDelegateCtor", Defined(<<>>), Undefined, 0)
ChildWithCtor ==
  Class("extendsCtor", Defined(<<"C">>), Defined(<<Annotations(<<"@c">>)>>), 1)
ChildWithCtorNoDecorator == Class("extendsCtor", Undefined, Undefined, 3)
ChildNoCtorNamesCtor ==
  Class("extendsNoCtorNamesCtor", Undefined, Undefined, 0)
ChildEs5Delegate == Class("es5Delegate", Undefined, Undefined, 0)
ChildEs5Ctor == Class("es5Ctor", Undefined, Undefined, 1)

Classes ==
  {Parent, NoDecorators, Child, ChildWithDecorator,
   ChildWithDecoratorAndProps, ChildWithCtor, ChildWithCtorNoDecorator,
   ChildNoCtorNamesCtor, ChildEs5Delegate, ChildEs5Ctor}

\* ------------------------------------------------------------- errors
\* The errors of reflective_errors (built by noProviderError,
\* cyclicDependencyError, instantiationError) and the plain Error of the
\* Null Container.  `keys` is the chain addKey builds, innermost first.
NoErr ==
  [name |-> "none", key |-> INJECTOR_KEY, keys |-> <<>>, addKey |-> FALSE,
   original |-> UNDEFINED, injector |-> 0]

noProviderError(i, key) ==
  [name |-> "NoProviderError", key |-> key, keys |-> <<key>>, addKey |-> TRUE,
   original |-> UNDEFINED, injector |-> i]

cyclicDependencyError(i, key) ==
  [name |-> "CyclicDependencyError", key |-> key, keys |-> <<key>>,
   addKey |-> TRUE, original |-> UNDEFINED, injector |-> i]

instantiationError(i, e, key) ==
  [name |-> "InstantiationError", key |-> key, keys |-> <<key>>,
   addKey |-> TRUE, original |-> e, injector |-> i]

\* The Error the ReflectiveKey constructor throws for a falsy token.
TokenMustBeDefined ==
  [NoErr EXCEPT !.name = "Error: Token must be defined!"]

NullInjectorError(token) ==
  [name |-> "Error: No provider for", key |-> Key(token, -1), keys |-> <<>>,
   addKey |-> FALSE, original |-> UNDEFINED, injector |-> NullParent]

AddKey(e, i, key) == [e EXCEPT !.keys = Append(@, key)]

\* ------------------------------------------------------------- outcomes
\* What a call returns: the world it leaves and a value or an error.
Ok(w, v) == [w |-> w, kind |-> "ok", val |-> v, err |-> NoErr]

Throw(w, e) == [w |-> w, kind |-> "throw", val |-> UNDEFINED, err |-> e]

\* One entry of the per-call log: "new" (a construction attempt, n is the
\* counter after its increment), "cyclic" (the attempt was rejected),
\* "factory" (factory n of the provider was called), "threw" (it threw).
Event(ev, i, pid, n) == [ev |-> ev, inj |-> i, pid |-> pid, n |-> n]

Logged(w, e) == [w EXCEPT !.log = Append(@, e)]

Min(S) == CHOOSE x \in S : \A y \in S : x <= y

\* ------------------------------------------------------------- container
\* new ReflectiveInjector_(providers, parent): keyIds and objs are parallel
\* to providers, every slot holds UNDEFINED and the counter is 0.
\* A container that is born with its slots filled.
ReflectiveInjector_Prefilled(providers, parent) ==
  [providers |-> providers,
   parent |-> parent,
   keyIds |-> [s \in 1..Len(providers) |-> providers[s].key.id],
   objs |-> [s \in 1..Len(providers) |-> null],
   constructionCounter |-> Len(providers)]

ReflectiveInjector_(providers, parent) ==
  [providers |-> providers,
   parent |-> parent,
   keyIds |-> [s \in 1..Len(providers) |-> providers[s].key.id],
   objs |-> [s \in 1..Len(providers) |-> UNDEFINED],
   constructionCounter |-> 0]

getMaxNumberOfObjects(w, i) == Len(w.injs[i].objs)

\* A Null Container that returns whatever value it is given.
NullInjector_getNeverThrows(w, token, arg) ==
  Ok(w, DefaultParam(arg, Injector_THROW_IF_NOT_FOUND))

\* NullInjector.get(token, notFoundValue = THROW_IF_NOT_FOUND), where
\* THROW_IF_NOT_FOUND is the sentinel of injector_compatibility.
NullInjector_get(w, token, arg) ==
  LET notFoundValue == DefaultParam(arg, Injector_THROW_IF_NOT_FOUND)
  IN  IF notFoundValue = Injector_THROW_IF_NOT_FOUND
        THEN Throw(w, NullInjectorError(token))
        ELSE Ok(w, notFoundValue)

\* A throwOrNull that ignores the caller's value.
throwOrNullAlways(w, i, key, notFoundValue) ==
  Throw(w, noProviderError(i, key))

\* throwOrNull compares with the sentinel of the reflective injector's module.
throwOrNull(w, i, key, notFoundValue) ==
  IF notFoundValue # THROW_IF_NOT_FOUND
    THEN Ok(w, notFoundValue)
    ELSE Throw(w, noProviderError(i, key))

\* The factories the resolver builds for a value record (no dependency,
\* returns the value of the record) and for an alias record (one dependency,
\* the aliased token, which it returns).
ResolverBuilt(mode) == mode \in {"value", "alias"}

ResolverBuiltFactory(provider, mode, deps) ==
  IF mode = "value" THEN V("value", provider.pid) ELSE deps[1]

\* The factory, called with the resolved arguments: it throws, or it
\* returns a new object (recorded in the heap with its arguments), or, for
\* the resolver's value and alias factories, what these return.
CallFactory(w, i, provider, f, deps) ==
  LET mode == provider.resolvedFactories[f].mode
      w1 == Logged(w, Event("factory", i, provider.pid, f))
  IN  IF mode = "flaky" /\ w.broken
        THEN Throw(Logged(w1, Event("threw", i, provider.pid, f)),
                   [NoErr EXCEPT !.name = "thrown by factory",
                                 !.original = Thrown(provider.pid)])
        ELSE IF ResolverBuilt(mode)
        THEN Ok(w1, ResolverBuiltFactory(provider, mode, deps))
        ELSE LET n == Len(w1.heap) + 1
             IN  Ok([w1 EXCEPT !.heap = Append(@, [inj |-> i,
                                                   pid |-> provider.pid,
                                                   fac |-> f,
                                                   args |-> deps])],
                    Obj(n))

\* The operators below call each other as the methods do.  A result that is
\* used more than once is handed to a second operator (named ...Then) as a
\* parameter, so each call is written, and evaluated, once.
RECURSIVE getByKey(_, _, _, _, _)
RECURSIVE getByKeySelf(_, _, _, _)
RECURSIVE getByKeyDefault(_, _, _, _, _)
RECURSIVE getByKeyDefaultWalk(_, _, _, _, _)
RECURSIVE getByKeyDefaultThen(_, _, _, _, _)
RECURSIVE getObjByKeyId(_, _, _)
RECURSIVE new(_, _, _)
RECURSIVE instantiateProvider(_, _, _)
RECURSIVE instantiateEach(_, _, _, _, _)
RECURSIVE instantiateEachThen(_, _, _, _, _)
RECURSIVE instantiate(_, _, _, _)
RECURSIVE mapDependencies(_, _, _, _, _)
RECURSIVE mapDependenciesThen(_, _, _, _, _)
RECURSIVE getByReflectiveDependency(_, _, _)

\* A dependency lookup that passes a copy of the object it found.
CopyOf(r) ==
  IF r.kind = "ok" /\ r.val.tag = "object"
    THEN Ok([r.w EXCEPT !.heap = Append(@, @[r.val.n])],
            Obj(Len(r.w.heap) + 1))
    ELSE r

getByReflectiveDependencyCopy(w, i, dep) ==
  CopyOf(getByKey(w, i, dep.key, dep.visibility,
                  IF dep.optional THEN null ELSE THROW_IF_NOT_FOUND))

\* A dependency lookup that starts at the youngest container.
getByReflectiveDependencyFromLeaf(w, i, dep) ==
  getByKey(w, Len(w.injs), dep.key, dep.visibility,
           IF dep.optional THEN null ELSE THROW_IF_NOT_FOUND)

getByReflectiveDependency(w, i, dep) ==
  getByKey(w, i, dep.key, dep.visibility,
           IF dep.optional THEN null ELSE THROW_IF_NOT_FOUND)

\* dependencies.map(dep => this.getByReflectiveDependency(dep)): left to
\* right, stopping at the first dependency that throws.
mapDependencies(w, i, dependencies, k, acc) ==
  IF k > Len(dependencies)
    THEN [w |-> w, kind |-> "ok", args |-> acc, err |-> NoErr]
    ELSE mapDependenciesThen(getByReflectiveDependency(w, i, dependencies[k]),
                             i, dependencies, k, acc)

mapDependenciesThen(r, i, dependencies, k, acc) ==
  IF r.kind = "ok"
    THEN mapDependencies(r.w, i, dependencies, k + 1, Append(acc, r.val))
    ELSE [w |-> r.w, kind |-> "throw", args |-> acc, err |-> r.err]

\* An instantiate that lets the factory's failure through as it is.
instantiateCallUnwrapped(r, i, provider) == r

\* An instantiate that undoes the constructions of its container when the
\* factory fails.
instantiateCallRollsBack(r, i, provider) ==
  IF r.kind = "ok"
    THEN r
    ELSE Throw([r.w EXCEPT !.injs[i].objs =
                             [s \in 1..Len(@) |-> UNDEFINED]],
               instantiationError(i, r.err.original, provider.key))

\* The second try block of instantiate: a failure of the factory is wrapped
\* by instantiationError(this, e, e.stack, provider.key).
instantiateCall(r, i, provider) ==
  IF r.kind = "ok"
    THEN r
    ELSE Throw(r.w, instantiationError(i, r.err.original, provider.key))

\* An instantiate that wraps the failure of a dependency in an
\* InstantiationError of its own.
instantiateThenRewraps(d, i, provider, f) ==
  IF d.kind # "ok"
    THEN Throw(d.w, IF d.err.name = "InstantiationError"
                      THEN instantiationError(i, d.err.original, provider.key)
                      ELSE IF d.err.addKey
                        THEN AddKey(d.err, i, provider.key)
                        ELSE d.err)
    ELSE instantiateCall(CallFactory(d.w, i, provider, f, d.args), i, provider)

\* The first try block of instantiate: a failure of a dependency gets the
\* provider's key added (when the error has addKey) and is thrown again.
instantiateThen(d, i, provider, f) ==
  IF d.kind # "ok"
    THEN Throw(d.w, IF d.err.addKey
                      THEN AddKey(d.err, i, provider.key)
                      ELSE d.err)
    ELSE instantiateCall(CallFactory(d.w, i, provider, f, d.args), i, provider)

\* instantiate(provider, ResolvedReflectiveFactory); f is the factory's index
\* in provider.resolvedFactories.
instantiate(w, i, provider, f) ==
  instantiateThen(
    mapDependencies(w, i, provider.resolvedFactories[f].dependencies, 1, <<>>),
    i, provider, f)

\* The loop of instantiateProvider over the factories of a multi-provider;
\* the array it returns is a new object.
instantiateEach(w, i, provider, f, res) ==
  IF f > Len(provider.resolvedFactories)
    THEN Ok([w EXCEPT !.heap = Append(@, [inj |-> i, pid |-> provider.pid,
                                          fac |-> 0, args |-> res])],
            V("array", Len(w.heap) + 1))
    ELSE instantiateEachThen(instantiate(w, i, provider, f), i, provider, f,
                             res)

\* A loop that puts each new instance in front of the earlier ones.
instantiateEachThenPrepend(r, i, provider, f, res) ==
  IF r.kind = "ok"
    THEN instantiateEach(r.w, i, provider, f + 1, <<r.val>> \o res)
    ELSE r

instantiateEachThen(r, i, provider, f, res) ==
  IF r.kind = "ok"
    THEN instantiateEach(r.w, i, provider, f + 1, Append(res, r.val))
    ELSE r

\* An instantiateProvider that hands out again what it built before.
instantiateProviderCached(w, i, provider) ==
  IF \E n \in 1..Len(w.heap) :
       w.heap[n].inj = i /\ w.heap[n].pid = provider.pid
    THEN Ok(w, Obj(CHOOSE n \in 1..Len(w.heap) :
                     w.heap[n].inj = i /\ w.heap[n].pid = provider.pid))
    ELSE IF provider.multiProvider
           THEN instantiateEach(w, i, provider, 1, <<>>)
           ELSE instantiate(w, i, provider, 1)

instantiateProvider(w, i, provider) ==
  IF provider.multiProvider
    THEN instantiateEach(w, i, provider, 1, <<>>)
    ELSE instantiate(w, i, provider, 1)

\* A guard that lets one more construction through.
CounterExceededLate(before, max) == before > max + 1

\* A guard that compares the value the counter has after the increment.
CounterExceededAfter(before, max) == before + 1 > max

\* The guard of new: `this.constructionCounter++ > this.getMaxNumberOfObjects()`
\* compares the value the counter had before the increment.
CounterExceeded(before, max) == before > max

\* A new whose guard reports the wrong error.
newWrongError(w, i, provider) ==
  LET before == w.injs[i].constructionCounter
      w1 == Logged([w EXCEPT !.injs[i].constructionCounter = before + 1],
                   Event("new", i, provider.pid, before + 1))
  IN  IF CounterExceeded(before, getMaxNumberOfObjects(w, i))
        THEN Throw(Logged(w1, Event("cyclic", i, provider.pid, before + 1)),
                   noProviderError(i, provider.key))
        ELSE instantiateProvider(w1, i, provider)

\* new(provider)
new(w, i, provider) ==
  LET before == w.injs[i].constructionCounter
      w1 == Logged([w EXCEPT !.injs[i].constructionCounter = before + 1],
                   Event("new", i, provider.pid, before + 1))
  IN  IF CounterExceeded(before, getMaxNumberOfObjects(w, i))
        THEN Throw(Logged(w1, Event("cyclic", i, provider.pid, before + 1)),
                   cyclicDependencyError(i, provider.key))
        ELSE instantiateProvider(w1, i, provider)

\* A getObjByKeyId that marks the slot when the construction failed.
getObjByKeyIdStoreFailure(r, i, s) ==
  IF r.kind = "ok"
    THEN Ok([r.w EXCEPT !.injs[i].objs[s] = r.val, !.stores[i][s] = @ + 1],
            r.val)
    ELSE Throw([r.w EXCEPT !.injs[i].objs[s] = null], r.err)

\* A getObjByKeyId that constructs the provider again at every lookup.
NeedsConstructionAlways(w, i, s) == TRUE

\* A getObjByKeyId that returns what new built without keeping it.
getObjByKeyIdNoStore(r, i, s) == r

\* A getObjByKeyId that resets the counter when new is over.
getObjByKeyIdStoreResets(r, i, s) ==
  IF r.kind = "ok"
    THEN Ok([r.w EXCEPT !.injs[i].objs[s] = r.val, !.stores[i][s] = @ + 1,
                        !.injs[i].constructionCounter = 0],
            r.val)
    ELSE Throw([r.w EXCEPT !.injs[i].constructionCounter = 0], r.err)

\* `this.objs[i] = this.new(this.providers[i]); return this.objs[i];`
getObjByKeyIdStore(r, i, s) ==
  IF r.kind = "ok"
    THEN Ok([r.w EXCEPT !.injs[i].objs[s] = r.val, !.stores[i][s] = @ + 1],
            r.val)
    ELSE r

\* Whether slot s of container i is constructed before it is returned.
NeedsConstruction(w, i, s) == w.injs[i].objs[s] = UNDEFINED

\* A scan that runs from the end of keyIds.
LastSlot(keyIds, keyId) ==
  CHOOSE s \in 1..Len(keyIds) :
    /\ keyIds[s] = keyId
    /\ \A r \in 1..Len(keyIds) : keyIds[r] = keyId => r <= s

\* The slot the scan of keyIds stops at: the first one with this key id.
FirstSlot(keyIds, keyId) ==
  Min({s \in 1..Len(keyIds) : keyIds[s] = keyId})

\* getObjByKeyId(keyId): the first slot whose key id matches, constructed
\* if it holds UNDEFINED; UNDEFINED when no slot matches.
getObjByKeyId(w, i, keyId) ==
  IF \A s \in 1..Len(w.injs[i].keyIds) : w.injs[i].keyIds[s] # keyId
    THEN Ok(w, UNDEFINED)
    ELSE IF NeedsConstruction(w, i, FirstSlot(w.injs[i].keyIds, keyId))
           THEN getObjByKeyIdStore(
                  new(w, i, w.injs[i].providers[
                              FirstSlot(w.injs[i].keyIds, keyId)]),
                  i, FirstSlot(w.injs[i].keyIds, keyId))
           ELSE Ok(w, w.injs[i].objs[FirstSlot(w.injs[i].keyIds, keyId)])

\* `obj !== UNDEFINED ? obj : this.throwOrNull(key, notFoundValue)`
getByKeySelfThen(r, i, key, notFoundValue) ==
  IF r.kind # "ok"
    THEN r
    ELSE IF r.val # UNDEFINED
           THEN r
           ELSE throwOrNull(r.w, i, key, notFoundValue)

\* A Self lookup that goes on to the ancestors.
getByKeySelfWalks(w, i, key, notFoundValue) ==
  getByKeyDefault(w, i, key, notFoundValue, "none")

getByKeySelf(w, i, key, notFoundValue) ==
  getByKeySelfThen(getObjByKeyId(w, i, key.id), i, key, notFoundValue)

\* The walk of getByKeyDefault: inj is the container looked at (0 for null,
\* NullParent for the Null Container, which is not a ReflectiveInjector_).
getByKeyDefaultWalk(w, i, key, notFoundValue, inj) ==
  IF inj > 0
    THEN getByKeyDefaultThen(getObjByKeyId(w, inj, key.id), i, key,
                             notFoundValue, inj)
    ELSE IF inj # 0
           THEN NullInjector_get(w, key.token, notFoundValue)
           ELSE throwOrNull(w, i, key, notFoundValue)

\* A walk that gives up after the first container.
getByKeyDefaultThenStop(r, i, key, notFoundValue, inj) ==
  IF r.kind # "ok"
    THEN r
    ELSE IF r.val # UNDEFINED
           THEN r
           ELSE throwOrNull(r.w, i, key, notFoundValue)

\* `if (obj !== UNDEFINED) return obj; inj = inj.parent;`
getByKeyDefaultThen(r, i, key, notFoundValue, inj) ==
  IF r.kind # "ok"
    THEN r
    ELSE IF r.val # UNDEFINED
           THEN r
           ELSE getByKeyDefaultWalk(r.w, i, key, notFoundValue,
                                    r.w.injs[inj].parent)

\* A walk that starts at the container whatever the visibility.
WalkStartSelf(w, i, visibility) == i

\* A walk that starts at the parent whenever there is one.
WalkStartAbove(w, i, visibility) ==
  IF w.injs[i].parent > 0 THEN w.injs[i].parent ELSE i

\* Where the walk starts: the parent for SkipSelf, the container otherwise.
WalkStart(w, i, visibility) ==
  IF visibility = "SkipSelf" THEN w.injs[i].parent ELSE i

getByKeyDefault(w, i, key, notFoundValue, visibility) ==
  getByKeyDefaultWalk(w, i, key, notFoundValue, WalkStart(w, i, visibility))

\* A getByKey that treats the injector token like any other.
getByKeyNoShortCut(w, i, key, visibility, notFoundValue) ==
  IF visibility = "Self"
    THEN getByKeySelf(w, i, key, notFoundValue)
    ELSE getByKeyDefault(w, i, key, notFoundValue, visibility)

getByKey(w, i, key, visibility, notFoundValue) ==
  IF key = INJECTOR_KEY
    THEN Ok(w, InjRef(i))
    ELSE IF visibility = "Self"
           THEN getByKeySelf(w, i, key, notFoundValue)
           ELSE getByKeyDefault(w, i, key, notFoundValue, visibility)

\* ------------------------------------------------------------- actions
\* The state a public call starts from; broken is the environment during
\* the call.
World(broken) ==
  [injs |-> injs, heap |-> heap, stores |-> stores, broken |-> broken,
   log |-> <<>>]

Call(op, i, token, arg, r) ==
  [op |-> op, inj |-> i, token |-> token, arg |-> arg, kind |-> r.kind,
   val |-> r.val, err |-> r.err, log |-> r.w.log]

NoCall ==
  [op |-> "none", inj |-> 0, token |-> "Injector", arg |-> NO_ARG,
   kind |-> "ok", val |-> UNDEFINED, err |-> NoErr, log |-> <<>>]

Init ==
  /\ injs = <<>>
  /\ heap = <<>>
  /\ allKeys = InitialKeys
  /\ otherKeys = <<>>
  /\ types = <<>>
  /\ stores = <<>>
  /\ last = NoCall

\* A call may be issued while the counters are within bounds.
WithinBounds ==
  \A i \in 1..Len(injs) : injs[i].constructionCounter < MaxCounter

Created(providers, parent) ==
  /\ injs' = Append(injs, ReflectiveInjector_(providers, parent))
  /\ stores' = Append(stores, [s \in 1..Len(providers) |-> 0])
  /\ last' = [NoCall EXCEPT !.op = "create", !.inj = Len(injs) + 1]
  /\ UNCHANGED <<heap, allKeys, otherKeys, types>>

\* The state a public call leaves, whether it returned or threw.
Returned(op, i, token, arg, keys, r) ==
  /\ allKeys' = keys
  /\ otherKeys' = otherKeys
  /\ types' = types
  /\ injs' = r.w.injs
  /\ heap' = r.w.heap
  /\ stores' = r.w.stores
  /\ last' = Call(op, i, token, arg, r)

\* ReflectiveInjector.fromResolvedProviders(providers, parent?) with no
\* parent or with Injector.NULL as parent.
FromResolvedProviders(providers, parent) ==
  /\ Len(injs) < MaxInj
  /\ Cardinality({i \in 1..Len(injs) : injs[i].parent <= 0}) < MaxRoots
  /\ Created(providers, parent)

\* injs[i].createChildFromResolved(providers)
CreateChildFromResolved(i, providers) ==
  /\ Len(injs) < MaxInj
  /\ i \in 1..Len(injs)
  /\ Created(providers, i)

\* injs[i].get(token, arg)
Get(i, token, arg, broken) ==
  /\ i \in 1..Len(injs)
  /\ WithinBounds
  /\ Returned("get", i, token, arg,
              KeyRegistry_get(allKeys, Token(token)).allKeys,
              getByKey(World(broken), i,
                       KeyRegistry_get(allKeys, Token(token)).key,
                       "none", DefaultParam(arg, THROW_IF_NOT_FOUND)))

\* The result of an instantiation, written into the slot of the provider's
\* key when the container has one.
StoreResult(r, i, provider) ==
  IF r.kind = "ok" /\ \E s \in 1..Len(r.w.injs[i].providers) :
                        r.w.injs[i].providers[s].key = provider.key
    THEN [r EXCEPT !.w.injs[i].objs[
                     CHOOSE s \in 1..Len(r.w.injs[i].providers) :
                       r.w.injs[i].providers[s].key = provider.key] = r.val]
    ELSE r

\* An instantiateResolved that caches what it built.
InstantiateResolvedStoring(i, provider, broken) ==
  /\ i \in 1..Len(injs)
  /\ WithinBounds
  /\ Len(heap) < MaxHeap
  /\ Returned("instantiateResolved", i, provider.key.token,
              V("provider", provider.pid), allKeys,
              StoreResult(instantiateProvider(World(broken), i, provider),
                          i, provider))

\* injs[i].instantiateResolved(provider)
InstantiateResolved(i, provider, broken) ==
  /\ i \in 1..Len(injs)
  /\ WithinBounds
  /\ Len(heap) < MaxHeap
  /\ Returned("instantiateResolved", i, provider.key.token,
              V("provider", provider.pid), allKeys,
              instantiateProvider(World(broken), i, provider))

\* ReflectiveInjector.resolveAndCreate(declarations, parent?)
ResolveAndCreate(declarations, parent) ==
  FromResolvedProviders(resolveReflectiveProviders(allKeys, declarations),
                        parent)

\* injs[i].resolveAndCreateChild(declarations)
ResolveAndCreateChild(i, declarations) ==
  CreateChildFromResolved(i, resolveReflectiveProviders(allKeys,
                                                        declarations))

\* injs[i].resolveAndInstantiate(declaration)
ResolveAndInstantiate(i, declaration, broken) ==
  InstantiateResolved(i,
                      resolveReflectiveProviders(allKeys, <<declaration>>)[1],
                      broken)

\* ReflectiveKey.get(x), x a token or a key.
ReflectiveKey_get(x) ==
  Returned("ReflectiveKey.get", 0, x.token,
           V(IF x.instanceofReflectiveKey THEN "key" ELSE "token", x.id),
           KeyRegistry_get(allKeys, x).allKeys,
           IF KeyRegistry_get(allKeys, x).threw
             THEN Throw(World(FALSE), TokenMustBeDefined)
             ELSE Ok(World(FALSE), KeyRegistry_get(allKeys, x).key))

\* registry.get(x) on the second registry, x a token or a key.
KeyRegistryGet(x) ==
  /\ otherKeys' = KeyRegistry_get(otherKeys, x).allKeys
  /\ last' = Call("KeyRegistry.get", 0, x.token,
                  V(IF x.instanceofReflectiveKey THEN "key" ELSE "token",
                    x.id),
                  IF KeyRegistry_get(otherKeys, x).threw
                    THEN Throw(World(FALSE), TokenMustBeDefined)
                    ELSE Ok(World(FALSE), KeyRegistry_get(otherKeys, x).key))
  /\ UNCHANGED <<injs, heap, allKeys, stores, types>>

\* A class declaration: `class X ...` or `class X extends types[parent] ...`.
DeclareClass(class, parent) ==
  /\ Len(types) < MaxTypes
  /\ parent \in 0..Len(types)
  /\ IF parent = 0 THEN class.form \in RootForms
                   ELSE class.form \in ChildForms
  /\ types' = Append(types,
                     [form |-> class.form, paramTypes |-> class.paramTypes,
                      paramAnnotations |-> class.paramAnnotations,
                      length |-> class.length, parent |-> parent])
  /\ last' = [NoCall EXCEPT !.op = "class", !.inj = Len(types) + 1]
  /\ UNCHANGED <<injs, heap, allKeys, otherKeys, stores>>

\* reflector.parameters(v), v a class or a value that is no function.
Parameters(v) ==
  /\ v.isFunction => v.n \in 1..Len(types)
  /\ last' = Call("parameters", 0, "Injector",
                  V(IF v.isFunction THEN "type" ELSE "no function", v.n),
                  Ok(World(FALSE),
                     [tag |-> "array", n |-> 0,
                      items |-> parameters(types, v)]))
  /\ UNCHANGED <<injs, heap, allKeys, otherKeys, stores, types>>

\* Injector.NULL.get(token, arg); the token is only printed, never looked
\* up in the key registry.
NullInjectorGet(token, arg) ==
  Returned("NullInjector.get", NullParent, token, arg, allKeys,
           NullInjector_get(World(FALSE), token, arg))

\* Providers handed to instantiateResolved.
InstantiableProviders == {pA_B, pC_flaky, pC_value, pC_aliasB}

\* Containers built from every list, asked for every token.
Next ==
  \/ \E providers \in ProviderLists, parent \in {0, NullParent} :
       FromResolvedProviders(providers, parent)
  \/ \E i \in 1..MaxInj, providers \in ChildLists :
       CreateChildFromResolved(i, providers)
  \/ \E i \in 1..MaxInj, token \in Tokens, arg \in NotFoundArgs,
          broken \in BOOLEAN :
       Get(i, token, arg, broken)

Spec == Init /\ [][Next]_vars

\* Every second argument a caller can pass, and a token without a key.
NextNotFound ==
  \/ \E providers \in FewLists, parent \in {0, NullParent} :
       FromResolvedProviders(providers, parent)
  \/ \E i \in 1..MaxInj, providers \in FewLists :
       CreateChildFromResolved(i, providers)
  \/ \E i \in 1..MaxInj, token \in AllTokens, arg \in AllNotFoundArgs :
       Get(i, token, arg, FALSE)
  \/ \E token \in AllTokens, arg \in AllNotFoundArgs :
       NullInjectorGet(token, arg)

SpecNotFound == Init /\ [][NextNotFound]_vars

\* get, instantiateResolved and child creation interleaved.
NextAll ==
  \/ \E providers \in SomeLists, parent \in {0, NullParent} :
       FromResolvedProviders(providers, parent)
  \/ \E i \in 1..MaxInj, providers \in SomeLists :
       CreateChildFromResolved(i, providers)
  \/ \E i \in 1..MaxInj, token \in Tokens, broken \in BOOLEAN :
       Get(i, token, NO_ARG, broken)
  \/ \E i \in 1..MaxInj, provider \in InstantiableProviders,
          broken \in BOOLEAN :
       InstantiateResolved(i, provider, broken)

SpecAll == Init /\ [][NextAll]_vars

\* Dependencies with Self and SkipSelf visibility, optional dependencies
\* and the injector token, in trees of two containers.
NextVis ==
  \/ \E providers \in VisRootLists, parent \in {0, NullParent} :
       FromResolvedProviders(providers, parent)
  \/ \E i \in 1..MaxInj, providers \in VisChildLists :
       CreateChildFromResolved(i, providers)
  \/ \E i \in 1..MaxInj, token \in Tokens :
       Get(i, token, NO_ARG, FALSE)

SpecVis == Init /\ [][NextVis]_vars

\* Containers resolved from nested declaration lists with multi providers.
NextMulti ==
  \/ \E declarations \in DeclLists, parent \in {0, NullParent} :
       ResolveAndCreate(declarations, parent)
  \/ \E i \in 1..MaxInj, declarations \in DeclLists :
       ResolveAndCreateChild(i, declarations)
  \/ \E i \in 1..MaxInj, token \in {"A", "B"}, broken \in BOOLEAN :
       Get(i, token, NO_ARG, broken)

SpecMulti == Init /\ [][NextMulti]_vars

\* Two-level trees in which the parent and the child bind the same tokens.
NextTree ==
  \/ \E providers \in TreeRootLists, parent \in {0, NullParent} :
       FromResolvedProviders(providers, parent)
  \/ \E i \in 1..MaxInj, providers \in TreeChildLists :
       CreateChildFromResolved(i, providers)
  \/ \E i \in 1..MaxInj, token \in {"A", "B", "C"} :
       Get(i, token, NO_ARG, FALSE)

SpecTree == Init /\ [][NextTree]_vars

\* instantiateResolved and resolveAndInstantiate with providers whose key
\* the container binds or whose dependencies lead to it.
NextInst ==
  \/ \E providers \in InstLists, parent \in {0, NullParent} :
       FromResolvedProviders(providers, parent)
  \/ \E i \in 1..MaxInj, providers \in InstLists :
       CreateChildFromResolved(i, providers)
  \/ \E i \in 1..MaxInj, token \in {"A", "B", "C"}, broken \in BOOLEAN :
       Get(i, token, NO_ARG, broken)
  \/ \E i \in 1..MaxInj, provider \in InstantiableProviders,
          broken \in BOOLEAN :
       InstantiateResolved(i, provider, broken)
  \/ \E i \in 1..MaxInj, declaration \in InstDecls, broken \in BOOLEAN :
       ResolveAndInstantiate(i, declaration, broken)

SpecInst == Init /\ [][NextInst]_vars

\* Gets that fail after a dependency was constructed, and their retries.
NextRetry ==
  \/ \E providers \in RetryLists, parent \in {0, NullParent} :
       FromResolvedProviders(providers, parent)
  \/ \E i \in 1..MaxInj, providers \in RetryLists :
       CreateChildFromResolved(i, providers)
  \/ \E i \in 1..MaxInj, token \in {"A", "B", "C"}, broken \in BOOLEAN :
       Get(i, token, NO_ARG, broken)

SpecRetry == Init /\ [][NextRetry]_vars

\* Lookups in the global registry and in a second registry.
NextRegistry ==
  \/ \E token \in {"X", "Y"} : ReflectiveKey_get(Token(token))
  \/ \E token \in OtherTokens : KeyRegistryGet(Token(token))
  \/ \E k \in 1..Len(otherKeys) : KeyRegistryGet(AKey(otherKeys[k]))

SpecRegistry == Init /\ [][NextRegistry]_vars

\* Containers made directly from lists with two entries of the same key.
NextDup ==
  \/ \E providers \in DupLists, parent \in {0, NullParent} :
       FromResolvedProviders(providers, parent)
  \/ \E i \in 1..MaxInj, providers \in DupLists :
       CreateChildFromResolved(i, providers)
  \/ \E i \in 1..MaxInj, token \in {"A", "B"}, broken \in BOOLEAN :
       Get(i, token, NO_ARG, broken)

SpecDup == Init /\ [][NextDup]_vars

\* Class declarations and the reflector's parameters.
NextReflect ==
  \/ \E class \in Classes, parent \in 0..MaxTypes :
       DeclareClass(class, parent)
  \/ \E n \in 1..MaxTypes : Parameters(TypeRef(n))
  \/ Parameters(NonType)

SpecReflect == Init /\ [][NextReflect]_vars

\* The four ways of creating a container, and get.
NextLazy ==
  \/ \E providers \in LazyLists, parent \in {0, NullParent} :
       FromResolvedProviders(providers, parent)
  \/ \E i \in 1..MaxInj, providers \in LazyLists :
       CreateChildFromResolved(i, providers)
  \/ \E declarations \in LazyDeclLists, parent \in {0, NullParent} :
       ResolveAndCreate(declarations, parent)
  \/ \E i \in 1..MaxInj, declarations \in LazyDeclLists :
       ResolveAndCreateChild(i, declarations)
  \/ \E i \in 1..MaxInj, token \in {"A", "B", "C"}, broken \in BOOLEAN :
       Get(i, token, NO_ARG, broken)

SpecLazy == Init /\ [][NextLazy]_vars

\* Lookups in the key registry, of tokens and of the keys it has made.
NextKeys ==
  \/ \E token \in RegistryTokens : ReflectiveKey_get(Token(token))
  \/ \E k \in 1..Len(allKeys) : ReflectiveKey_get(AKey(allKeys[k]))

SpecKeys == Init /\ [][NextKeys]_vars

\* ------------------------------------------------------------- vocabulary
Injs == 1..Len(injs)

Slots(i) == 1..Len(injs[i].providers)

Binds(i, token) == \E s \in Slots(i) : injs[i].providers[s].key.token = token

\* The slot get uses for a token the container binds.
SlotOf(i, token) ==
  Min({s \in Slots(i) : injs[i].providers[s].key.token = token})

\* The containers from i up to the root, and what the chain ends in.
RECURSIVE Chain(_)
Chain(i) == IF i <= 0 THEN <<>> ELSE <<i>> \o Chain(injs[i].parent)

Ancestry(i) == {Chain(i)[k] : k \in 1..Len(Chain(i))}

ChainEnd(i) == injs[Chain(i)[Len(Chain(i))]].parent

BoundInChain(i, token) == \E j \in Ancestry(i) : Binds(j, token)

\* The nearest container of the chain of i that binds the token.
Nearest(i, token) ==
  Chain(i)[Min({k \in 1..Len(Chain(i)) : Binds(Chain(i)[k], token)})]

IsGet == last.op = "get"

Succeeded == last.kind = "ok"

Failed == last.kind = "throw"

IsNoProviderError ==
  Failed /\ last.err.name \in {"NoProviderError", "Error: No provider for"}

\* The objects produced by factory f of provider pid for container i.
Produced(i, pid, f) ==
  {n \in 1..Len(heap) :
     heap[n].inj = i /\ heap[n].pid = pid /\ heap[n].fac = f}

C2_NoProviderFails ==
  (/\ IsGet
   /\ last.arg = NO_ARG
   /\ last.token # "Injector"
   /\ ~BoundInChain(last.inj, last.token))
  => IsNoProviderError

\* ------------------------------------------------------------- C3
\* C3 as stated: get(T, D) of an unbound token returns D for every D the
\* caller supplies, undefined included.
C3_AnyDefaultReturned ==
  (/\ IsGet
   /\ last.arg # NO_ARG
   /\ last.token # "Injector"
   /\ ~BoundInChain(last.inj, last.token))
  => (Succeeded /\ last.val = last.arg)

\* C3, amended: get(T, D) of an unbound token returns D for every D other
\* than undefined and the exported THROW_IF_NOT_FOUND sentinel, whatever
\* the chain ends in.
C3_DefaultReturned ==
  (/\ IsGet
   /\ last.arg \notin {NO_ARG, undefined, Injector_THROW_IF_NOT_FOUND}
   /\ last.token # "Injector"
   /\ ~BoundInChain(last.inj, last.token))
  => (Succeeded /\ last.val = last.arg)

\* get(X, "fallback") on a child of a container without parent.
C3_Witness ==
  /\ IsGet /\ Succeeded
  /\ last.arg = fallback /\ last.val = fallback
  /\ last.token = "X"
  /\ Len(Chain(last.inj)) = 2
  /\ ChainEnd(last.inj) = 0

\* ------------------------------------------------------------- C4
\* C4: child visibility.  In a two-level tree whose root has no parent:
\* a successful get on the child of a token only the root binds returns
\* the content of the root's slot; a get without default on the root of a
\* token the root does not bind fails with NoProviderError, also when the
\* child binds it; and with root [A] and child [B] (no dependencies), get
\* of A and of B on the child succeed.
C4_ChildVisibility ==
  \A c \in Injs : \A p \in Injs :
    (injs[c].parent = p /\ injs[p].parent = 0 /\ IsGet) =>
      /\ (/\ last.inj = c /\ Succeeded
          /\ Binds(p, last.token) /\ ~Binds(c, last.token))
         => /\ last.val = injs[p].objs[SlotOf(p, last.token)]
            /\ last.val # UNDEFINED
      /\ (/\ last.inj = p /\ last.arg = NO_ARG
          /\ last.token # "Injector" /\ ~Binds(p, last.token))
         => (Failed /\ last.err.name = "NoProviderError")
      /\ (/\ last.inj = c /\ last.token \in {"A", "B"}
          /\ injs[p].providers = <<pA>> /\ injs[c].providers = <<pB>>)
         => Succeeded

\* Root [A], child [B]: B was constructed in the child, the last call is
\* child.get(A), answered from the root's slot.
C4_Witness ==
  /\ Len(injs) = 2
  /\ injs[1].providers = <<pA>> /\ injs[1].parent = 0
  /\ injs[2].providers = <<pB>> /\ injs[2].parent = 1
  /\ injs[2].objs[1] # UNDEFINED
  /\ IsGet /\ Succeeded /\ last.inj = 2 /\ last.token = "A"
  /\ last.val = injs[1].objs[1]

\* ------------------------------------------------------------- C5
\* The resolution graph: slot s of container i points to the slots its
\* dependencies resolve to (the first binding in the scope of each).
DepScope(i, dep) ==
  IF dep.visibility = "Self"
    THEN <<i>>
    ELSE Chain(IF dep.visibility = "SkipSelf" THEN injs[i].parent ELSE i)

DepBinders(i, dep) ==
  {k \in 1..Len(DepScope(i, dep)) : Binds(DepScope(i, dep)[k], dep.key.token)}

DepTarget(i, dep) ==
  LET j == DepScope(i, dep)[Min(DepBinders(i, dep))]
  IN  <<j, SlotOf(j, dep.key.token)>>

DepsOf(node) ==
  LET p == injs[node[1]].providers[node[2]]
  IN  UNION {{p.resolvedFactories[f].dependencies[k] :
                k \in 1..Len(p.resolvedFactories[f].dependencies)} :
             f \in 1..Len(p.resolvedFactories)}

Edges(node) ==
  {DepTarget(node[1], dep) :
     dep \in {d \in DepsOf(node) : DepBinders(node[1], d) # {}}}

Nodes == UNION {{<<i, s>> : s \in Slots(i)} : i \in Injs}

RECURSIVE ReachFrom(_, _)
ReachFrom(S, n) ==
  IF n = 0 THEN S ELSE ReachFrom(S \cup UNION {Edges(x) : x \in S}, n - 1)

OnCycle(node) == node \in ReachFrom(Edges(node), Cardinality(Nodes))

\* The slot a get of the token on container i ends at.
Target(i, token) == <<Nearest(i, token), SlotOf(Nearest(i, token), token)>>

ProviderOf(i, pid) ==
  injs[i].providers[CHOOSE s \in Slots(i) : injs[i].providers[s].pid = pid]

\* C6: when a factory called during a get throws, the get fails with an
\* InstantiationError that wraps what the factory threw and carries the
\* key of the provider whose factory it was.
C6_FactoryFailureWrapped ==
  IsGet =>
    \A k \in 1..Len(last.log) :
      last.log[k].ev = "threw" =>
        /\ Failed
        /\ last.err.name = "InstantiationError"
        /\ last.err.original = Thrown(last.log[k].pid)
        /\ last.err.key = ProviderOf(last.log[k].inj, last.log[k].pid).key
        /\ last.err.injector = last.log[k].inj

\* get(A) fails on the factory of C, two dependencies down.
C6_Witness ==
  /\ IsGet /\ Failed /\ last.token = "A"
  /\ last.err.name = "InstantiationError"
  /\ last.err.key = KC
  /\ last.err.original = Thrown(pC_flaky.pid)

\* ------------------------------------------------------------- C7
\* C7: after a get of a bound token failed, the slot of the token is
\* unconstructed.
C7_FailureStoresNothing ==
  (IsGet /\ Failed /\ BoundInChain(last.inj, last.token))
  => LET t == Target(last.inj, last.token)
     IN  injs[t[1]].objs[t[2]] = UNDEFINED

\* The factory of the token's own provider was called and threw.
C7_Witness ==
  /\ IsGet /\ Failed /\ BoundInChain(last.inj, last.token)
  /\ LET t == Target(last.inj, last.token)
     IN  /\ injs[t[1]].objs[t[2]] = UNDEFINED
         /\ \E k \in 1..Len(last.log) :
              /\ last.log[k].ev = "threw"
              /\ last.log[k].inj = t[1]
              /\ last.log[k].pid = injs[t[1]].providers[t[2]].pid

\* ------------------------------------------------------------- C8
\* C8: every get of a token whose slot is unconstructed when the call is
\* made calls the factory of its provider (here: a provider with one
\* factory and no dependencies), however many earlier gets failed in that
\* factory.
C8_RetryCallsFactory ==
  [][(/\ last'.op = "get"
      /\ BoundInChain(last'.inj, last'.token)
      /\ LET t == Target(last'.inj, last'.token)
         IN  /\ injs[t[1]].objs[t[2]] = UNDEFINED
             /\ ~injs[t[1]].providers[t[2]].multiProvider
             /\ injs[t[1]].providers[t[2]].resolvedFactories[1].dependencies
                  = <<>>)
     => LET t == Target(last'.inj, last'.token)
        IN  \E k \in 1..Len(last'.log) :
              last'.log[k] = Event("factory", t[1],
                                   injs[t[1]].providers[t[2]].pid, 1)]_vars

\* ------------------------------------------------------------- C10
IsNew(k) == last.log[k].ev = "new"

Rejected(k) ==
  /\ k < Len(last.log)
  /\ last.log[k + 1] = [last.log[k] EXCEPT !.ev = "cyclic"]

SlotCount(k) == Len(injs[last.log[k].inj].objs)

\* C10 as stated: a construction attempt is rejected exactly when the
\* counter after its increment exceeds the number of slots.
C10_RejectedAboveSlots ==
  \A k \in 1..Len(last.log) :
    IsNew(k) => (Rejected(k) <=> last.log[k].n > SlotCount(k))

\* The construction attempts of container i among the first k log entries.
Attempts(log, i, k) ==
  Cardinality({m \in 1..k : log[m].ev = "new" /\ log[m].inj = i})

\* C10, amended: every construction attempt increments the counter of its
\* container, rejected or not, and it is rejected exactly when the value
\* the counter had before the increment exceeds the number n of slots,
\* that is when the value after the increment exceeds n + 1: the
\* (n+2)-th attempt of a container is the first one rejected.
C10_Threshold ==
  [][\A i \in Injs :
       /\ injs'[i].constructionCounter =
            injs[i].constructionCounter
              + Attempts(last'.log, i, Len(last'.log))
       /\ \A k \in 1..Len(last'.log) :
            (last'.log[k].ev = "new" /\ last'.log[k].inj = i) =>
              /\ last'.log[k].n =
                   injs[i].constructionCounter + Attempts(last'.log, i, k)
              /\ (/\ k < Len(last'.log)
                  /\ last'.log[k + 1] = [last'.log[k] EXCEPT !.ev = "cyclic"])
                 <=> last'.log[k].n > Len(injs[i].objs) + 1]_vars

\* An attempt with counter n + 1 went ahead and the attempt with counter
\* n + 2 was rejected.
C10_Witness ==
  \E k \in 1..Len(last.log) : \E m \in 1..Len(last.log) :
    /\ IsNew(k) /\ ~Rejected(k) /\ last.log[k].n = SlotCount(k) + 1
    /\ IsNew(m) /\ Rejected(m) /\ last.log[m].n = SlotCount(m) + 2
    /\ last.log[m].inj = last.log[k].inj

\* ------------------------------------------------------------- C9
\* C9: a slot that holds a constructed value keeps it in every step, and
\* every slot is assigned at most once, under get, instantiateResolved and
\* child creation in any order.
C9_SlotsWriteOnce ==
  [][\A i \in Injs : \A s \in Slots(i) :
       /\ injs[i].objs[s] # UNDEFINED => injs'[i].objs[s] = injs[i].objs[s]
       /\ injs'[i].providers = injs[i].providers
       /\ stores'[i][s] <= 1
       /\ stores'[i][s] = 1 <=> injs'[i].objs[s] # UNDEFINED]_vars

\* instantiateResolved(A -> B) on a child whose parent holds a constructed
\* B: the call returned a new object and the slot kept its value.
C9_Witness ==
  /\ Len(injs) = 2
  /\ last.op = "instantiateResolved" /\ Succeeded /\ last.inj = 2
  /\ last.val.tag = "object"
  /\ \E s \in Slots(1) :
       /\ injs[1].objs[s] # UNDEFINED
       /\ heap[last.val.n].args = <<injs[1].objs[s]>>
       /\ last.val # injs[1].objs[s]
       /\ last.log = <<Event("factory", 2, pA_B.pid, 1)>>

\* ------------------------------------------------------------- C11
\* No slot of any container lies on a dependency cycle.
Acyclic == \A node \in Nodes : ~OnCycle(node)

\* C11: while the dependency graph of the containers is acyclic, no get
\* fails with CyclicDependencyError, whatever gets failed before it.
C11_CyclicOnlyOnCycle ==
  (IsGet /\ Failed /\ last.err.name = "CyclicDependencyError") => ~Acyclic

\* ------------------------------------------------------------- C12
\* The get that last' records reached an unconstructed slot whose
\* construction attempt went ahead: t is the slot, and its provider has
\* one factory with the single dependency dep.
Constructs(t, dep) ==
  /\ last'.op = "get"
  /\ BoundInChain(last'.inj, last'.token)
  /\ t = Target(last'.inj, last'.token)
  /\ injs[t[1]].objs[t[2]] = UNDEFINED
  /\ injs[t[1]].constructionCounter <= Len(injs[t[1]].objs)
  /\ ~injs[t[1]].providers[t[2]].multiProvider
  /\ injs[t[1]].providers[t[2]].resolvedFactories[1].dependencies = <<dep>>
  /\ dep.key # INJECTOR_KEY

\* The not-found policy applied to dependency dep of the provider of slot
\* t: null is passed to the factory when dep is optional, the get fails
\* with NoProviderError for dep's key, raised by container t[1], otherwise.
NotFoundPolicy(t, dep) ==
  IF dep.optional
    THEN /\ last'.kind = "ok"
         /\ last'.val = injs'[t[1]].objs[t[2]]
         /\ heap'[last'.val.n].args = <<null>>
    ELSE /\ last'.kind = "throw"
         /\ last'.err.name = "NoProviderError"
         /\ last'.err.injector = t[1]
         /\ last'.err.keys = <<dep.key, injs[t[1]].providers[t[2]].key>>

Ancestors(i) == Ancestry(i) \ {i}

AllDeps == {Dep(k, o, v) : k \in {KA, KB, KC}, o \in BOOLEAN,
                          v \in {"none", "Self", "SkipSelf"}}

\* C12: a dependency with Self visibility whose key the constructing
\* container does not bind gets the not-found policy, also when an
\* ancestor binds the key, and the call leaves every ancestor as it was
\* (no slot assigned, no construction attempted).
C12_SelfStaysLocal ==
  [][\A t \in Nodes : \A dep \in AllDeps :
       (/\ Constructs(t, dep)
        /\ dep.visibility = "Self"
        /\ ~Binds(t[1], dep.key.token))
       => /\ NotFoundPolicy(t, dep)
          /\ \A j \in Ancestors(t[1]) :
               injs'[j] = injs[j] /\ stores'[j] = stores[j]]_vars

\* child.get(A) with A -> @Self B in the child and B bound, and already
\* constructed, in the parent only: NoProviderError for B.
C12_Witness ==
  /\ Len(injs) = 2 /\ injs[2].parent = 1
  /\ injs[2].providers = <<pA_selfB>>
  /\ Binds(1, "B") /\ injs[1].objs[SlotOf(1, "B")] # UNDEFINED
  /\ IsGet /\ last.inj = 2 /\ last.token = "A"
  /\ Failed /\ last.err.name = "NoProviderError"
  /\ last.err.keys = <<KB, KA>>

\* ------------------------------------------------------------- C13
\* C13: a dependency with SkipSelf visibility is looked up from the parent
\* of the constructing container on.  The constructing container's own
\* slot for the key is not assigned and is never what the factory
\* receives; when an ancestor binds the key and the get succeeds, the
\* factory receives the content of the nearest such ancestor's slot; when
\* the container has no parent, the not-found policy applies.
C13_SkipSelfSkipsOwn ==
  [][\A t \in Nodes : \A dep \in AllDeps :
       (Constructs(t, dep) /\ dep.visibility = "SkipSelf") =>
         /\ (/\ Binds(t[1], dep.key.token)
             /\ SlotOf(t[1], dep.key.token) # t[2])
            => LET own == SlotOf(t[1], dep.key.token)
               IN  /\ injs'[t[1]].objs[own] = injs[t[1]].objs[own]
                   /\ stores'[t[1]][own] = stores[t[1]][own]
                   /\ last'.kind = "ok"
                      => heap'[last'.val.n].args # <<injs'[t[1]].objs[own]>>
         /\ (last'.kind = "ok" /\ BoundInChain(injs[t[1]].parent, dep.key.token))
            => LET up == Target(injs[t[1]].parent, dep.key.token)
               IN  /\ injs'[up[1]].objs[up[2]] # UNDEFINED
                   /\ heap'[last'.val.n].args = <<injs'[up[1]].objs[up[2]]>>
         /\ injs[t[1]].parent = 0 => NotFoundPolicy(t, dep)]_vars

\* Parent [B], child [A -> @SkipSelf B, B] whose own B is constructed:
\* child.get(A) was given the parent's B.
C13_Witness ==
  /\ Len(injs) = 2 /\ injs[2].parent = 1
  /\ injs[1].providers = <<pB>>
  /\ injs[2].providers = <<pA_skipB, pB>>
  /\ injs[2].objs[2] # UNDEFINED
  /\ IsGet /\ Succeeded /\ last.inj = 2 /\ last.token = "A"
  /\ heap[last.val.n].args = <<injs[1].objs[1]>>
  /\ injs[1].objs[1] # injs[2].objs[2]

\* A root [A -> @SkipSelf B, B] without parent: get(A) fails with
\* NoProviderError for B although the root binds B.
C13_WitnessNoParent ==
  /\ Len(injs) = 1 /\ injs[1].parent = 0
  /\ injs[1].providers = <<pA_skipB, pB>>
  /\ IsGet /\ Failed /\ last.token = "A"
  /\ last.err.name = "NoProviderError" /\ last.err.keys = <<KB, KA>>

\* ------------------------------------------------------------- C14
\* C14: when the key of the single dependency of the provider under
\* construction is bound nowhere in the scope its visibility searches,
\* an optional dependency is passed as null and the get succeeds, and a
\* required one makes the get fail with NoProviderError.
C14_OptionalOrNoProvider ==
  [][\A t \in Nodes : \A dep \in AllDeps :
       (Constructs(t, dep) /\ DepBinders(t[1], dep) = {})
       => IF dep.optional
            THEN /\ last'.kind = "ok"
                 /\ heap'[last'.val.n].args = <<null>>
            ELSE /\ last'.kind = "throw"
                 /\ last'.err.name \in {"NoProviderError",
                                        "Error: No provider for"}]_vars

\* ------------------------------------------------------------- C15
IsNullGet == last.op = "NullInjector.get"

\* C15 as stated: the Null Container returns every explicitly supplied
\* second argument other than the exported sentinel, undefined included.
C15_NullReturnsAnyDefault ==
  (IsNullGet /\ last.arg \notin {NO_ARG, Injector_THROW_IF_NOT_FOUND})
  => (Succeeded /\ last.val = last.arg)

\* C15, amended: Injector.NULL.get(token) without second argument, with
\* undefined and with the exported THROW_IF_NOT_FOUND sentinel fails with
\* the error "No provider for <token>!"; with any other second argument D
\* it returns D; and no call changes the containers, the objects or the
\* key registry.
C15_NullContainer ==
  [][last'.op = "NullInjector.get" =>
       /\ UNCHANGED <<injs, heap, allKeys, stores>>
       /\ IF last'.arg \in {NO_ARG, undefined, Injector_THROW_IF_NOT_FOUND}
            THEN /\ last'.kind = "throw"
                 /\ last'.err = NullInjectorError(last'.token)
            ELSE /\ last'.kind = "ok"
                 /\ last'.val = last'.arg]_vars

\* Containers exist, one slot is constructed, and the last call is
\* Injector.NULL.get(X, "fallback"), which returned the fallback.
C15_Witness ==
  /\ IsNullGet /\ Succeeded
  /\ last.token = "X" /\ last.arg = fallback /\ last.val = fallback
  /\ \E i \in Injs : \E s \in Slots(i) : injs[i].objs[s] # UNDEFINED

\* Injector.NULL.get(X, Injector.THROW_IF_NOT_FOUND) failed.
C15_WitnessThrows ==
  /\ IsNullGet /\ Failed
  /\ last.arg = Injector_THROW_IF_NOT_FOUND
  /\ last.err = NullInjectorError("X")

\* ------------------------------------------------------------- C16
IsInstantiate == last.op = "instantiateResolved"

\* The provider the call that last' records was given.
Given == CHOOSE p \in InstantiableProviders : p.pid = last'.arg.n

\* C16 as stated: two successive successful instantiateResolved calls with
\* the same provider on the same container return different references,
\* whatever the kind of the provider.
C16_AlwaysFresh ==
  [][(/\ IsInstantiate /\ Succeeded
      /\ last'.op = "instantiateResolved" /\ last'.kind = "ok"
      /\ last'.inj = last.inj /\ last'.arg = last.arg)
     => last'.val # last.val]_vars

\* C16, amended: instantiateResolved calls the factory of the provider at
\* every call and assigns no slot.  With a factory that builds a new
\* object at each call (a class provider, a constructing factory) the
\* result is a reference that did not exist before the call, so no two
\* calls return the same reference; a value provider returns its value at
\* every call and an alias provider the singleton of the aliased token.
C16_FreshWhenFactoryBuilds ==
  [][(last'.op = "instantiateResolved" /\ last'.kind = "ok") =>
       /\ \E k \in 1..Len(last'.log) :
            last'.log[k] = Event("factory", last'.inj, Given.pid, 1)
       /\ \A s \in Slots(last'.inj) :
            injs'[last'.inj].providers[s].key = Given.key
            => injs'[last'.inj].objs[s] = injs[last'.inj].objs[s]
       /\ LET mode == Given.resolvedFactories[1].mode
          IN  /\ ~ResolverBuilt(mode)
                 => /\ last'.val.tag = "object"
                    /\ last'.val.n > Len(heap)
                    /\ last'.val.n <= Len(heap')
                    /\ last.kind = "ok" => last'.val # last.val
                    /\ \A j \in Injs : \A s \in Slots(j) :
                         injs'[j].objs[s] # last'.val
              /\ mode = "value" => last'.val = V("value", Given.pid)
              /\ (mode = "alias" /\ BoundInChain(last'.inj, "B"))
                 => LET t == Target(last'.inj, "B")
                    IN  last'.val = injs'[t[1]].objs[t[2]]]_vars

\* The second instantiateResolved of the same constructing provider on the
\* same container returned another object than the first.
C16_Witness ==
  /\ IsInstantiate /\ Succeeded /\ last.val.tag = "object"
  /\ \E n \in 1..Len(heap) :
       /\ n # last.val.n
       /\ heap[n].inj = last.inj
       /\ heap[n].pid = last.arg.n
       /\ heap[last.val.n].pid = last.arg.n
       /\ \A j \in Injs : \A s \in Slots(j) : injs[j].objs[s] # Obj(n)

\* ------------------------------------------------------------- C17
\* The dependencies of the single factory of a provider.
Deps(p) == p.resolvedFactories[1].dependencies

\* Dependency k of provider p is a default-visibility dependency on a
\* token that container i binds itself.
OwnDep(i, p, k) ==
  /\ Deps(p)[k].visibility = "none"
  /\ Deps(p)[k].key # INJECTOR_KEY
  /\ Binds(i, Deps(p)[k].key.token)

\* C17: when get(T) on a container that binds T has returned, (a) the
\* result is the content of T's slot, (b) every default-visibility
\* dependency of T's provider that the container binds was passed to the
\* factory as the content of that dependency's slot (what get of it
\* returns from then on), and (c) every constructed instance of the
\* container whose provider depends on T that way was built with this
\* very result as its argument.
C17_InjectedAreSingletons ==
  (/\ IsGet /\ Succeeded
   /\ last.token # "Injector"
   /\ Binds(last.inj, last.token))
  => LET i == last.inj
         p == injs[i].providers[SlotOf(i, last.token)]
     IN  /\ last.val = injs[i].objs[SlotOf(i, last.token)]
         /\ ~p.multiProvider =>
              \A k \in 1..Len(Deps(p)) :
                OwnDep(i, p, k) =>
                  /\ heap[last.val.n].args[k]
                       = injs[i].objs[SlotOf(i, Deps(p)[k].key.token)]
                  /\ heap[last.val.n].args[k] # UNDEFINED
         /\ \A s \in Slots(i) :
              LET q == injs[i].providers[s]
              IN  (~q.multiProvider /\ injs[i].objs[s] # UNDEFINED) =>
                    \A k \in 1..Len(Deps(q)) :
                      (OwnDep(i, q, k) /\ Deps(q)[k].key.token = last.token)
                      => heap[injs[i].objs[s].n].args[k] = last.val

\* get(B) after get(A) in [A -> B, B]: it returned the object A was built
\* with, without constructing anything.
C17_Witness ==
  /\ IsGet /\ Succeeded /\ last.token = "B" /\ last.log = <<>>
  /\ injs[last.inj].providers = <<pA_B, pB>>
  /\ injs[last.inj].objs[1] # UNDEFINED
  /\ heap[injs[last.inj].objs[1].n].args = <<last.val>>
  /\ last.val.tag = "object"

\* ------------------------------------------------------------- C18
\* C18: the injector token is answered by the container itself.
\* get(Injector) returns the container it is called on and changes
\* nothing (no slot, no counter, no object, no construction attempt),
\* also when a provider is registered for the token; a dependency on the
\* token, with no, Self or SkipSelf visibility, is passed as the
\* container that constructs the dependent; a slot registered for the
\* token is never constructed and no construction of it is attempted.
C18_InjectorToken ==
  [][/\ (last'.op = "get" /\ last'.token = "Injector")
        => /\ last'.kind = "ok"
           /\ last'.val = InjRef(last'.inj)
           /\ last'.log = <<>>
           /\ UNCHANGED <<injs, heap, stores>>
     /\ \A n \in 1..Len(heap') :
          LET q == injs'[heap'[n].inj].providers[
                     CHOOSE s \in 1..Len(injs'[heap'[n].inj].providers) :
                       injs'[heap'[n].inj].providers[s].pid = heap'[n].pid]
          IN  \A k \in 1..Len(Deps(q)) :
                Deps(q)[k].key = INJECTOR_KEY
                => heap'[n].args[k] = InjRef(heap'[n].inj)
     /\ \A i \in 1..Len(injs') : \A s \in 1..Len(injs'[i].providers) :
          injs'[i].providers[s].key = INJECTOR_KEY
          => /\ injs'[i].objs[s] = UNDEFINED
             /\ \A k \in 1..Len(last'.log) :
                  ~(/\ last'.log[k].ev = "new"
                    /\ last'.log[k].inj = i
                    /\ last'.log[k].pid = injs'[i].providers[s].pid)
     /\ \A i \in Injs :
          injs'[i].constructionCounter =
            injs[i].constructionCounter
              + Cardinality({k \in 1..Len(last'.log) :
                               /\ last'.log[k].ev = "new"
                               /\ last'.log[k].inj = i
                               /\ ProviderOf(i, last'.log[k].pid).key
                                    # INJECTOR_KEY})]_vars

\* A container with a provider registered for the injector token, whose C
\* was built with the container itself for all three visibilities, and
\* the last call, get(Injector), returned the container.
C18_Witness ==
  /\ IsGet /\ Succeeded /\ last.token = "Injector"
  /\ last.val = InjRef(last.inj)
  /\ injs[last.inj].providers = <<pC_inj, pInj>>
  /\ injs[last.inj].objs[2] = UNDEFINED
  /\ injs[last.inj].objs[1] # UNDEFINED
  /\ heap[injs[last.inj].objs[1].n].args
       = <<InjRef(last.inj), InjRef(last.inj), InjRef(last.inj)>>

\* ------------------------------------------------------------- C19
\* The multi declarations of a token, in the order of the flattened list.
MultiDecls(declarations, token) ==
  LET Contributes(d) == d.token = token /\ d.multi
  IN  SelectSeq(flatten(List(declarations)), Contributes)

\* C19: when get(T) succeeds on a token whose nearest binding is a
\* multi-provider resolved from a declaration list with k multi
\* declarations of T, the result is an array of exactly k elements, and
\* element i is the object made by the factory of the i-th of these
\* declarations in the order of the depth-first, left-to-right flattening.
C19_MultiOrder ==
  \A declarations \in DeclLists :
    (/\ IsGet /\ Succeeded
     /\ BoundInChain(last.inj, last.token)
     /\ LET t == Target(last.inj, last.token)
        IN  /\ injs[t[1]].providers
                 = resolveReflectiveProviders(InitialKeys, declarations)
            /\ injs[t[1]].providers[t[2]].multiProvider)
    => LET t == Target(last.inj, last.token)
           q == injs[t[1]].providers[t[2]]
           ms == MultiDecls(declarations, last.token)
       IN  /\ last.val.tag = "array"
           /\ Len(heap[last.val.n].args) = Len(ms)
           /\ Len(ms) = Len(q.resolvedFactories)
           /\ \A k \in 1..Len(ms) :
                LET e == heap[last.val.n].args[k]
                IN  /\ e.tag = "object"
                    /\ heap[e.n].inj = t[1]
                    /\ heap[e.n].pid = q.pid
                    /\ heap[e.n].fac = k
                    /\ q.resolvedFactories[heap[e.n].fac].decl = ms[k].did

\* get(B) on the container resolved from [[[m2], m1], m3]: three
\* elements, made by the factories of m2, m1 and m3 in this order.
C19_Witness ==
  /\ IsGet /\ Succeeded /\ last.token = "B"
  /\ injs[last.inj].providers
       = resolveReflectiveProviders(InitialKeys,
                                    <<List(<<List(<<m2>>), m1>>), m3>>)
  /\ last.val.tag = "array"
  /\ Len(heap[last.val.n].args) = 3
  /\ LET q == injs[last.inj].providers[1]
     IN  [k \in 1..3 |->
            q.resolvedFactories[heap[heap[last.val.n].args[k].n].fac].decl]
         = <<m2.did, m1.did, m3.did>>

\* ------------------------------------------------------------- C20
IsKeyGet == last.op = "ReflectiveKey.get"

\* C20: key identity.  The registry only grows, by appending, and holds no
\* token twice; a lookup of a token returns the key the registry holds for
\* it, which is the key it held before when the token was registered (so
\* every lookup of the token returns the same key with the same id), and
\* registers the token only when it is new; a lookup of a key returns that
\* key and registers nothing.
C20_KeyIdentity ==
  [][(last'.op = "ReflectiveKey.get" /\ last'.kind = "ok") =>
       /\ SubSeq(allKeys', 1, Len(allKeys)) = allKeys
       /\ \A j \in 1..Len(allKeys') : \A k \in 1..Len(allKeys') :
            allKeys'[j].token = allKeys'[k].token => j = k
       /\ last'.val.token = last'.token
       /\ IF last'.arg.tag = "key"
            THEN /\ last'.val = Key(last'.token, last'.arg.n)
                 /\ allKeys' = allKeys
            ELSE /\ Has(allKeys', last'.val)
                 /\ Has(TokensOf(allKeys), last'.token)
                    => /\ allKeys' = allKeys
                       /\ last'.val
                            = allKeys[IndexOf(TokensOf(allKeys), last'.token)]
                 /\ ~Has(TokensOf(allKeys), last'.token)
                    => allKeys' = Append(allKeys, last'.val)]_vars

\* A second lookup of X, registered before Y and Z: the key made at the
\* first lookup.
C20_Witness ==
  /\ IsKeyGet /\ Succeeded /\ last.arg.tag = "token"
  /\ last.token = "X"
  /\ allKeys = InitialKeys \o <<Key("X", 4), Key("Y", 5), Key("Z", 6)>>
  /\ last.val = Key("X", 4)

\* A lookup of the key of Y returned it, the registry holding X, Y, Z.
C20_WitnessKey ==
  /\ IsKeyGet /\ Succeeded /\ last.arg.tag = "key"
  /\ allKeys = InitialKeys \o <<Key("X", 4), Key("Y", 5), Key("Z", 6)>>
  /\ last.val = Key("Y", 5)

\* ------------------------------------------------------------- C21
\* C21: the ids of the keys in the registry are pairwise distinct and are
\* exactly 0 .. numberOfKeys - 1 in order of registration (the k-th key
\* registered has id k - 1), and in every step the registry keeps the
\* keys it has, with their ids, and its size does not decrease.
C21_DenseIds ==
  [][/\ \A k \in 1..Len(allKeys') : allKeys'[k].id = k - 1
     /\ \A j \in 1..Len(allKeys') : \A k \in 1..Len(allKeys') :
          (allKeys'[j].id = allKeys'[k].id
           \/ allKeys'[j].token = allKeys'[k].token) => j = k
     /\ Len(allKeys') >= Len(allKeys)
     /\ \A k \in 1..Len(allKeys) : allKeys'[k] = allKeys[k]]_vars

\* Three tokens were registered by lookups, in the order Z, X, Y, and
\* the last lookup, of Z again, returned id 4.
C21_Witness ==
  /\ IsKeyGet /\ Succeeded /\ last.arg.tag = "token"
  /\ allKeys = InitialKeys \o <<Key("Z", 4), Key("X", 5), Key("Y", 6)>>
  /\ last.val = Key("Z", 4)

\* ------------------------------------------------------------- C22
\* C22: a lookup of a falsy token fails with the error "Token must be
\* defined!" and leaves the registry as it was (same keys, same size), so
\* that the next new valid token gets the id the failed lookup would
\* have used.
C22_FalsyTokenRejected ==
  [][/\ (last'.op = "ReflectiveKey.get" /\ last'.arg.tag = "token"
         /\ last'.token \in FalsyTokens)
        => /\ last'.kind = "throw"
           /\ last'.err = TokenMustBeDefined
           /\ allKeys' = allKeys
     /\ (/\ IsKeyGet /\ Failed
         /\ last'.op = "ReflectiveKey.get" /\ last'.kind = "ok"
         /\ Len(allKeys') > Len(allKeys))
        => /\ last'.val.id = Len(allKeys)
           /\ last'.val.token \notin FalsyTokens]_vars

\* The lookup of the empty string failed, X having been registered before
\* it: the registry still ends with X.
C22_Witness ==
  /\ IsKeyGet /\ Failed /\ last.token = ""
  /\ last.err = TokenMustBeDefined
  /\ allKeys = InitialKeys \o <<Key("X", 4)>>

\* ------------------------------------------------------------- C23
\* The non-multi declarations of a token, in the order of the flattened
\* list.
PlainDecls(declarations, token) ==
  LET Declares(d) == d.token = token /\ ~d.multi
  IN  SelectSeq(flatten(List(declarations)), Declares)

\* C23: in a container resolved from a declaration list, a token with
\* non-multi declarations has one slot, whose provider is built from the
\* last of these declarations in flattened order, and a successful get of
\* the token on the container returns an object made by that declaration's
\* factory.
C23_LastDeclarationWins ==
  \A declarations \in DeclLists : \A i \in Injs : \A token \in {"A", "B"} :
    (/\ injs[i].providers
          = resolveReflectiveProviders(InitialKeys, declarations)
     /\ PlainDecls(declarations, token) # <<>>)
    => LET ds == PlainDecls(declarations, token)
           final == ds[Len(ds)]
       IN  /\ Cardinality({s \in Slots(i) :
                            injs[i].providers[s].key.token = token}) = 1
           /\ LET q == injs[i].providers[SlotOf(i, token)]
              IN  /\ ~q.multiProvider
                  /\ Len(q.resolvedFactories) = 1
                  /\ q.resolvedFactories[1].decl = final.did
                  /\ q.resolvedFactories[1].dependencies = final.deps
                  /\ (/\ IsGet /\ Succeeded
                      /\ last.inj = i /\ last.token = token)
                     => /\ last.val.tag = "object"
                        /\ heap[last.val.n].inj = i
                        /\ heap[last.val.n].pid = q.pid
                        /\ q.pid = 100 + final.did
                        /\ Len(heap[last.val.n].args) = Len(final.deps)

\* get(A) on the container resolved from [[dA2], m1, [dA_B, null, [dA]]]:
\* three declarations of A, the object comes from the last one, dA.
C23_Witness ==
  /\ IsGet /\ Succeeded /\ last.token = "A"
  /\ injs[last.inj].providers
       = resolveReflectiveProviders(
           InitialKeys,
           <<List(<<dA2>>), m1, List(<<dA_B, Null, List(<<dA>>)>>)>>)
  /\ Len(PlainDecls(<<List(<<dA2>>), m1, List(<<dA_B, Null, List(<<dA>>)>>)>>,
                    "A")) = 3
  /\ heap[last.val.n].pid = 100 + dA.did
  /\ heap[last.val.n].args = <<>>

\* ------------------------------------------------------------- C24
\* Slot far (of an ancestor) is left alone by the call that last' records:
\* not assigned, no construction of it attempted.
Untouched(far) ==
  /\ injs'[far[1]].objs[far[2]] = injs[far[1]].objs[far[2]]
  /\ stores'[far[1]][far[2]] = stores[far[1]][far[2]]
  /\ \A k \in 1..Len(last'.log) :
       ~(/\ last'.log[k].ev = "new"
         /\ last'.log[k].inj = far[1]
         /\ last'.log[k].pid = injs[far[1]].providers[far[2]].pid)

\* C24 as stated: get(T) on a container that binds T, with ancestors that
\* bind T too, returns the container's own instance and leaves the slot
\* of T of every ancestor alone.
C24_FartherNeverTouched ==
  [][(last'.op = "get" /\ Binds(last'.inj, last'.token)) =>
       /\ last'.kind = "ok" =>
            last'.val = injs'[last'.inj].objs[SlotOf(last'.inj, last'.token)]
       /\ \A j \in Ancestors(last'.inj) :
            Binds(j, last'.token) =>
              Untouched(<<j, SlotOf(j, last'.token)>>)]_vars

\* C24, amended: get(T) on a container that binds T, with ancestors that
\* bind T too, returns the container's own instance, and the lookup
\* leaves the slot of T of every ancestor alone; such a slot is
\* constructed during the call only when the providers under construction
\* depend on T from that ancestor's scope.
C24_NearestWins ==
  [][(last'.op = "get" /\ Binds(last'.inj, last'.token)) =>
       LET t == <<last'.inj, SlotOf(last'.inj, last'.token)>>
       IN  /\ last'.kind = "ok" => last'.val = injs'[t[1]].objs[t[2]]
           /\ injs[t[1]].objs[t[2]] # UNDEFINED
              => UNCHANGED <<injs, stores, heap>>
           /\ \A j \in Ancestors(last'.inj) :
                (/\ Binds(j, last'.token)
                 /\ <<j, SlotOf(j, last'.token)>>
                      \notin ReachFrom(Edges(t), Cardinality(Nodes)))
                => Untouched(<<j, SlotOf(j, last'.token)>>)]_vars

\* Parent [A -> B, B] with its A constructed, child [A]: child.get(A)
\* returned the child's own A, another object than the parent's.
C24_Witness ==
  /\ Len(injs) = 2 /\ injs[2].parent = 1
  /\ injs[1].providers = <<pA_B, pB>> /\ injs[2].providers = <<pA>>
  /\ IsGet /\ Succeeded /\ last.inj = 2 /\ last.token = "A"
  /\ last.val = injs[2].objs[1]
  /\ injs[1].objs[1] # UNDEFINED
  /\ injs[1].objs[1] # last.val

\* ------------------------------------------------------------- C25
\* C25: when get(T) on a container finds T in a strict ancestor whose slot
\* is unconstructed, the construction happens in the ancestor's scope:
\* every construction attempt and factory call of the call belongs to the
\* owner or its ancestors and the counters of these are the ones that
\* move, the requesting container (and every container outside the
\* owner's chain) is unchanged, and when the get succeeds the instance
\* was built with the dependencies as resolved from the owner: the
\* owner itself for the injector token, and the slot the dependency
\* resolves to from the owner for a token bound in the scope the
\* dependency's visibility searches from the owner.
C25_OwnerScope ==
  [][(/\ last'.op = "get"
      /\ BoundInChain(last'.inj, last'.token)
      /\ Target(last'.inj, last'.token)[1] # last'.inj
      /\ LET t == Target(last'.inj, last'.token)
         IN  /\ injs[t[1]].objs[t[2]] = UNDEFINED
             /\ ~injs[t[1]].providers[t[2]].multiProvider)
     => LET t == Target(last'.inj, last'.token)
            q == injs[t[1]].providers[t[2]]
        IN  /\ \A k \in 1..Len(last'.log) :
                 last'.log[k].inj \in Ancestry(t[1])
            /\ last'.log # <<>>
            /\ last'.log[1] = Event("new", t[1], q.pid,
                                    injs[t[1]].constructionCounter + 1)
            /\ injs'[t[1]].constructionCounter
                 = injs[t[1]].constructionCounter
                     + Attempts(last'.log, t[1], Len(last'.log))
            /\ \A j \in Injs \ Ancestry(t[1]) :
                 injs'[j] = injs[j] /\ stores'[j] = stores[j]
            /\ last'.kind = "ok" =>
                 /\ last'.val = injs'[t[1]].objs[t[2]]
                 /\ heap'[last'.val.n].inj = t[1]
                 /\ \A k \in 1..Len(Deps(q)) :
                      /\ Deps(q)[k].key = INJECTOR_KEY
                         => heap'[last'.val.n].args[k] = InjRef(t[1])
                      /\ (/\ Deps(q)[k].key # INJECTOR_KEY
                          /\ DepBinders(t[1], Deps(q)[k]) # {})
                         => LET d == DepTarget(t[1], Deps(q)[k])
                            IN  heap'[last'.val.n].args[k]
                                  = injs'[d[1]].objs[d[2]]]_vars

\* Parent [A -> B, B], child [B] whose own B is constructed: child.get(A)
\* built the parent's A with the parent's B, and the child's counter still
\* counts its own B only.
C25_Witness ==
  /\ Len(injs) = 2 /\ injs[2].parent = 1
  /\ injs[1].providers = <<pA_B, pB>> /\ injs[2].providers = <<pB>>
  /\ injs[2].objs[1] # UNDEFINED
  /\ IsGet /\ Succeeded /\ last.inj = 2 /\ last.token = "A"
  /\ last.log # <<>>
  /\ heap[last.val.n].args = <<injs[1].objs[2]>>
  /\ injs[1].objs[2] # injs[2].objs[1]
  /\ injs[2].constructionCounter = 1
  /\ injs[1].constructionCounter = 2

\* Parent [C -> Injector (three visibilities)], child []: child.get(C)
\* built C with the parent as the injector.
C25_WitnessInjector ==
  /\ Len(injs) = 2 /\ injs[2].parent = 1
  /\ injs[1].providers = <<pC_inj>>
  /\ IsGet /\ Succeeded /\ last.inj = 2 /\ last.token = "C"
  /\ last.log # <<>>
  /\ heap[last.val.n].args = <<InjRef(1), InjRef(1), InjRef(1)>>

\* ------------------------------------------------------------- C26
\* C26: the step that creates a container (fromResolvedProviders,
\* resolveAndCreate or a child-creation call) leaves every slot of the new
\* container unconstructed and its counter 0, invokes no factory and
\* changes no other container; a successful get(T) changes only the slot
\* of T and slots reachable from it through dependencies, and attempts
\* and invokes only the providers of these slots.
C26_Lazy ==
  [][/\ last'.op = "create" =>
          /\ Len(injs') = Len(injs) + 1
          /\ last'.inj = Len(injs')
          /\ \A s \in 1..Len(injs'[last'.inj].providers) :
               /\ injs'[last'.inj].objs[s] = UNDEFINED
               /\ stores'[last'.inj][s] = 0
          /\ Len(injs'[last'.inj].objs) = Len(injs'[last'.inj].providers)
          /\ injs'[last'.inj].constructionCounter = 0
          /\ heap' = heap
          /\ last'.log = <<>>
          /\ \A j \in Injs : injs'[j] = injs[j]
     /\ (last'.op = "get" /\ last'.kind = "ok") =>
          LET R == IF BoundInChain(last'.inj, last'.token)
                     THEN ReachFrom({Target(last'.inj, last'.token)},
                                    Cardinality(Nodes))
                     ELSE {}
          IN  /\ \A node \in Nodes \ R :
                   /\ injs'[node[1]].objs[node[2]]
                        = injs[node[1]].objs[node[2]]
                   /\ stores'[node[1]][node[2]] = stores[node[1]][node[2]]
              /\ \A k \in 1..Len(last'.log) :
                   \E node \in R :
                     /\ node[1] = last'.log[k].inj
                     /\ injs[node[1]].providers[node[2]].pid
                          = last'.log[k].pid]_vars

\* A container [C, A -> B, B] after its first successful get(A): A and B
\* are constructed, C is not, two constructions were counted.
C26_Witness ==
  /\ Len(injs) >= 1
  /\ injs[1].providers = <<pC, pA_B, pB>>
  /\ IsGet /\ Succeeded /\ last.inj = 1 /\ last.token = "A"
  /\ last.log # <<>>
  /\ injs[1].objs[1] = UNDEFINED
  /\ injs[1].objs[2] = last.val
  /\ injs[1].objs[3] # UNDEFINED
  /\ injs[1].constructionCounter = 2

\* A container resolved from declarations, just created as a child.
C26_WitnessCreated ==
  /\ last.op = "create" /\ last.inj = 2
  /\ injs[2].parent = 1
  /\ Len(injs[2].providers) = 2
  /\ injs[2].providers[1].pid > 100
  /\ \A s \in 1..2 : injs[2].objs[s] = UNDEFINED
  /\ injs[1].constructionCounter > 0

\* ------------------------------------------------------------- C27
\* The provider an instantiateResolved call was given; n is its identity.
GivenProvider(n) ==
  CHOOSE q \in InstantiableProviders
                 \cup {resolveReflectiveProvider(allKeys, d) : d \in InstDecls} :
    q.pid = n

\* The slots the dependencies of provider q lead to from container i.
LedTo(i, q) ==
  ReachFrom({DepTarget(i, dep) :
               dep \in {d \in {Deps(q)[k] : k \in 1..Len(Deps(q))} :
                          DepBinders(i, d) # {}}},
            Cardinality(Nodes))

\* C27 as stated: instantiateResolved(p) and resolveAndInstantiate(d)
\* leave the slot the container has for p's key in its previous state,
\* and a following get of that key returns the content of that slot,
\* which is not what instantiateResolved returned.
C27_NeverTheSingleton ==
  [][/\ (last'.op = "instantiateResolved" /\ Binds(last'.inj, last'.token))
        => LET s == SlotOf(last'.inj, last'.token)
           IN  injs'[last'.inj].objs[s] = injs[last'.inj].objs[s]
     /\ (/\ IsInstantiate /\ Succeeded
         /\ Binds(last.inj, last.token)
         /\ last'.op = "get" /\ last'.kind = "ok"
         /\ last'.inj = last.inj /\ last'.token = last.token)
        => /\ last'.val
                = injs'[last'.inj].objs[SlotOf(last'.inj, last'.token)]
           /\ last'.val # last.val]_vars

\* C27, amended: instantiateResolved(p) and resolveAndInstantiate(d) never
\* write the result into a slot: a slot the container has for p's key
\* keeps its previous state unless p's dependencies lead to that key
\* (then the slot gets the container's own singleton), an object built by
\* p's factory is in no slot after the call, and a following get of that
\* key returns the container's own singleton, which is not the instance
\* produced by instantiateResolved when p's factory builds a new object.
C27_NoSlotWritten ==
  [][/\ last'.op = "instantiateResolved"
        => LET q == GivenProvider(last'.arg.n)
           IN  /\ (/\ Binds(last'.inj, last'.token)
                   /\ <<last'.inj, SlotOf(last'.inj, last'.token)>>
                        \notin LedTo(last'.inj, q))
                  => LET s == SlotOf(last'.inj, last'.token)
                     IN  /\ injs'[last'.inj].objs[s] = injs[last'.inj].objs[s]
                         /\ stores'[last'.inj][s] = stores[last'.inj][s]
               /\ \A node \in Nodes \ LedTo(last'.inj, q) :
                    injs'[node[1]].objs[node[2]]
                      = injs[node[1]].objs[node[2]]
               /\ (/\ last'.kind = "ok"
                   /\ ~ResolverBuilt(q.resolvedFactories[1].mode))
                  => /\ last'.val = Obj(Len(heap'))
                     /\ Len(heap') > Len(heap)
                     /\ \A node \in Nodes :
                          injs'[node[1]].objs[node[2]] # last'.val
     /\ (/\ IsInstantiate /\ Succeeded
         /\ Binds(last.inj, last.token)
         /\ last'.op = "get" /\ last'.kind = "ok"
         /\ last'.inj = last.inj /\ last'.token = last.token)
        => /\ last'.val
                = injs'[last'.inj].objs[SlotOf(last'.inj, last'.token)]
           /\ ~ResolverBuilt(
                 GivenProvider(last.arg.n).resolvedFactories[1].mode)
              => last'.val # last.val]_vars

\* Container [A -> B, B]: resolveAndInstantiate(A -> B) returned an object,
\* the slot of A stayed unconstructed, and the following get(A) returned
\* the container's own A, another object.
C27_Witness ==
  /\ Len(injs) >= 1
  /\ injs[1].providers = <<pA_B, pB>>
  /\ IsGet /\ Succeeded /\ last.inj = 1 /\ last.token = "A"
  /\ last.val = injs[1].objs[1]
  /\ last.log # <<>>
  /\ \E n \in 1..Len(heap) :
       /\ heap[n].inj = 1 /\ heap[n].pid = 100 + dA_B.did
       /\ Obj(n) # last.val
       /\ heap[n].args = <<injs[1].objs[2]>>

\* ------------------------------------------------------------- C28
\* Event k of the call that last' records is a factory call that returned.
FactoryReturned(k) ==
  /\ last'.log[k].ev = "factory"
  /\ ~(k < Len(last'.log) /\ last'.log[k + 1].ev = "threw")

\* The slot of the provider event k of the call that last' records is about.
SlotOfEvent(k) ==
  CHOOSE s \in Slots(last'.log[k].inj) :
    injs[last'.log[k].inj].providers[s].pid = last'.log[k].pid

\* C28: when a get fails, every (non-multi) provider whose factory
\* returned during the call is cached in its slot after the call; a
\* constructed slot keeps its instance through every later call, and no
\* later get attempts its construction or invokes its factory again.
C28_PartialStaysCached ==
  [][last'.op = "get" =>
       /\ last'.kind = "throw" =>
            \A k \in 1..Len(last'.log) :
              (/\ FactoryReturned(k)
               /\ ~injs[last'.log[k].inj].providers[SlotOfEvent(k)]
                     .multiProvider)
              => /\ injs'[last'.log[k].inj].objs[SlotOfEvent(k)] # UNDEFINED
                 /\ injs[last'.log[k].inj].objs[SlotOfEvent(k)] = UNDEFINED
       /\ \A node \in Nodes :
            injs[node[1]].objs[node[2]] # UNDEFINED
            => /\ injs'[node[1]].objs[node[2]] = injs[node[1]].objs[node[2]]
               /\ \A k \in 1..Len(last'.log) :
                    ~(/\ last'.log[k].inj = node[1]
                      /\ last'.log[k].pid
                           = injs[node[1]].providers[node[2]].pid)]_vars

\* Container [A -> B, B] after a get(A) in which B was constructed and the
\* factory of A threw: B is cached, A is not.
C28_WitnessFailed ==
  /\ Len(injs) >= 1
  /\ injs[1].providers = <<pA_Bflaky, pB>>
  /\ IsGet /\ Failed /\ last.inj = 1 /\ last.token = "A"
  /\ \E k \in 1..Len(last.log) :
       last.log[k] = Event("factory", 1, pB.pid, 1)
  /\ injs[1].objs[2] # UNDEFINED
  /\ injs[1].objs[1] = UNDEFINED

\* The retry in that container: get(A) succeeded with the cached B as the
\* argument, and the call attempted and invoked A only.
C28_Witness ==
  /\ Len(injs) >= 1
  /\ injs[1].providers = <<pA_Bflaky, pB>>
  /\ IsGet /\ Succeeded /\ last.inj = 1 /\ last.token = "A"
  /\ injs[1].constructionCounter = 3
  /\ last.log = <<Event("new", 1, pA_Bflaky.pid, 3),
                  Event("factory", 1, pA_Bflaky.pid, 1)>>
  /\ heap[last.val.n].args = <<injs[1].objs[2]>>
  /\ Len(heap) = 2

\* ------------------------------------------------------------- C29
\* Construction attempt j of the last call was still under way when the
\* call ended: fewer factories of its provider returned than it has.
Open(j) ==
  Cardinality({k \in j..Len(last.log) :
                 /\ last.log[k].ev = "factory"
                 /\ last.log[k].inj = last.log[j].inj
                 /\ last.log[k].pid = last.log[j].pid
                 /\ ~(k < Len(last.log) /\ last.log[k + 1].ev = "threw")})
    < Len(ProviderOf(last.log[j].inj, last.log[j].pid).resolvedFactories)

\* The keys of the attempts under way among the first j events, innermost
\* first.
RECURSIVE OpenKeys(_)
OpenKeys(j) ==
  IF j = 0
    THEN <<>>
    ELSE IF last.log[j].ev = "new" /\ Open(j)
      THEN <<ProviderOf(last.log[j].inj, last.log[j].pid).key>>
             \o OpenKeys(j - 1)
      ELSE OpenKeys(j - 1)

\* C29: when a factory throws anywhere below the requested token, the get
\* fails with the one InstantiationError made for the provider whose
\* factory threw: its key and its original error are those of that
\* provider, and the providers that were being constructed around it
\* have only appended their keys, innermost first, up to the requested one.
C29_OneErrorKeysAppended ==
  IsGet =>
    \A k \in 1..Len(last.log) :
      last.log[k].ev = "threw" =>
        /\ Failed
        /\ last.err = [instantiationError(
                         last.log[k].inj, Thrown(last.log[k].pid),
                         ProviderOf(last.log[k].inj, last.log[k].pid).key)
                       EXCEPT !.keys = OpenKeys(Len(last.log))]
        /\ last.err.keys[1]
             = ProviderOf(last.log[k].inj, last.log[k].pid).key
        /\ last.err.keys[Len(last.err.keys)].token = last.token

\* Container [A -> B, B -> C, C throws]: get(A) failed with the error of
\* C, to which B and A appended their keys.
C29_Witness ==
  /\ IsGet /\ Failed /\ last.token = "A"
  /\ injs[last.inj].providers = <<pA_B, pB_C, pC_flaky>>
  /\ last.err.name = "InstantiationError"
  /\ last.err.key = KC
  /\ last.err.original = Thrown(pC_flaky.pid)
  /\ last.err.keys = <<KC, KB, KA>>
  /\ Cardinality({k \in 1..Len(last.log) : last.log[k].ev = "threw"}) = 1

\* ------------------------------------------------------------- C30
\* The slots of container c that are constructed.
Constructed(c) == {s \in 1..Len(c.objs) : c.objs[s] # UNDEFINED}

\* C30: no step makes the construction counter of a container smaller,
\* whether the call succeeds or fails, and in every state the number of
\* constructed slots of a container is at most its construction counter.
C30_CounterInvariant ==
  [][/\ \A i \in Injs :
          /\ injs'[i].constructionCounter >= injs[i].constructionCounter
          /\ Cardinality(Constructed(injs[i]))
               <= injs[i].constructionCounter
     /\ \A i \in 1..Len(injs') :
          Cardinality(Constructed(injs'[i]))
            <= injs'[i].constructionCounter]_vars

\* After a failed get and a successful one in the same container: the
\* counter counts the failed attempts too, so it exceeds the number of
\* constructed slots.
C30_Witness ==
  /\ IsGet /\ Succeeded /\ last.log # <<>>
  /\ Cardinality(Constructed(injs[last.inj])) >= 1
  /\ injs[last.inj].constructionCounter
       > Cardinality(Constructed(injs[last.inj]))
  /\ \E k \in 1..Len(last.log) :
       last.log[k].ev = "new" /\ last.log[k].inj = last.inj
                              /\ last.log[k].n >= 2

\* ------------------------------------------------------------- C31
\* Event m of the last call is a factory call that returned.
Returns(m) ==
  /\ last.log[m].ev = "factory"
  /\ ~(m < Len(last.log) /\ last.log[m + 1].ev = "threw")

\* Construction attempt j of the last call is still under way after event
\* k: fewer factories of its provider have returned than it has.
UnderWay(j, k) ==
  /\ last.log[j].ev = "new"
  /\ Cardinality({m \in j..k : /\ Returns(m)
                               /\ last.log[m].inj = last.log[j].inj
                               /\ last.log[m].pid = last.log[j].pid})
       < Len(ProviderOf(last.log[j].inj, last.log[j].pid).resolvedFactories)

\* The number of constructions of container i nested in each other after
\* event k of the last call.
Depth(i, k) ==
  Cardinality({j \in 1..k : last.log[j].inj = i /\ UnderWay(j, k)})

\* The construction attempts of container i in the last call.
NewEvents(i) ==
  {j \in 1..Len(last.log) : last.log[j].ev = "new" /\ last.log[j].inj = i}

\* C31: every get ends, with a value and no error or with an error and
\* no value, whatever the provider graph is; during the call a container
\* never has more than its number of slots plus two constructions nested
\* in each other (nor more attempts than that in all), and a get of a
\* token whose provider is on a cycle ends with an error.
C31_GetTerminates ==
  IsGet =>
    /\ \/ Succeeded /\ last.err = NoErr
       \/ Failed /\ last.err.name # "none" /\ last.val = UNDEFINED
    /\ \A i \in Injs :
         /\ Cardinality(NewEvents(i)) <= Len(injs[i].objs) + 2
         /\ \A k \in 1..Len(last.log) : Depth(i, k) <= Len(injs[i].objs) + 2
    /\ (/\ BoundInChain(last.inj, last.token)
        /\ OnCycle(Target(last.inj, last.token)))
       => Failed

\* The first get(A) in a container [A -> B, B -> C, C -> A]: five
\* constructions were nested in each other (three slots plus two) when
\* the call ended with CyclicDependencyError.
C31_Witness ==
  /\ IsGet /\ Failed /\ last.token = "A"
  /\ injs[last.inj].providers = <<pA_B, pB_C, pC_A>>
  /\ last.err.name = "CyclicDependencyError"
  /\ Depth(last.inj, Len(last.log)) = 5
  /\ injs[last.inj].constructionCounter = 5

\* ------------------------------------------------------------- C32
\* C32 as stated: in the second registry as well, a newly allocated key
\* has as id the number of keys that registry held before the
\* allocation, and the keys of the registry have pairwise distinct ids.
C32_InstanceIds ==
  [][(last'.op = "KeyRegistry.get" /\ last'.kind = "ok") =>
       /\ (last'.arg.tag = "token"
           /\ ~Has(TokensOf(otherKeys), last'.token))
          => /\ last'.val.id = Len(otherKeys)
             /\ otherKeys' = Append(otherKeys, last'.val)
       /\ \A j \in 1..Len(otherKeys') : \A k \in 1..Len(otherKeys') :
            otherKeys'[j].id = otherKeys'[k].id => j = k]_vars

\* What the code does: the new key of the second registry has as id the
\* number of keys of the global registry.
C32_GlobalCount ==
  [][(/\ last'.op = "KeyRegistry.get" /\ last'.kind = "ok"
      /\ last'.arg.tag = "token"
      /\ ~Has(TokensOf(otherKeys), last'.token))
     => /\ last'.val = Key(last'.token, Len(allKeys))
        /\ otherKeys' = Append(otherKeys, last'.val)
        /\ allKeys' = allKeys]_vars

\* The second registry holds two tokens with the same id.
C32_DuplicateIds ==
  /\ last.op = "KeyRegistry.get" /\ Succeeded
  /\ Len(otherKeys) >= 2
  /\ otherKeys[1].token # otherKeys[2].token
  /\ otherKeys[1].id = otherKeys[2].id

\* ------------------------------------------------------------- C33
\* Slot s of container i comes after another slot with the same key.
Shadowed(i, s) ==
  \E r \in 1..(s - 1) : injs[i].providers[r].key = injs[i].providers[s].key

\* C33: in a container made directly from a list with two entries of the
\* same key, a successful get of the key returns the content of the entry
\* with the lowest index, and in every state the later entry is
\* unconstructed, was never assigned, and no call has attempted its
\* construction or invoked its factory.
C33_LowestIndexWins ==
  /\ \A i \in Injs : \A s \in Slots(i) :
       Shadowed(i, s) =>
         /\ injs[i].objs[s] = UNDEFINED
         /\ stores[i][s] = 0
         /\ \A n \in 1..Len(heap) :
              ~(heap[n].inj = i /\ heap[n].pid = injs[i].providers[s].pid)
         /\ \A k \in 1..Len(last.log) :
              ~(/\ last.log[k].inj = i
                /\ last.log[k].pid = injs[i].providers[s].pid)
  /\ (IsGet /\ Succeeded /\ BoundInChain(last.inj, last.token)) =>
       LET j == Nearest(last.inj, last.token)
           s == Min({r \in Slots(j) :
                       injs[j].providers[r].key.token = last.token})
       IN  last.val = injs[j].objs[s]

\* Container [A -> B, B, A]: get(A) returned the product of the first
\* entry, built with B; the third slot is unconstructed.
C33_Witness ==
  /\ IsGet /\ Succeeded /\ last.token = "A"
  /\ injs[last.inj].providers = <<pA_B, pB, pA>>
  /\ last.val = injs[last.inj].objs[1]
  /\ heap[last.val.n].pid = pA_B.pid
  /\ heap[last.val.n].args = <<injs[last.inj].objs[2]>>
  /\ injs[last.inj].objs[3] = UNDEFINED

\* Container [A throws, A]: get(A) failed on the first entry and did not
\* fall back on the second.
C33_WitnessFailed ==
  /\ IsGet /\ Failed /\ last.token = "A"
  /\ injs[last.inj].providers = <<pA_flaky, pA>>
  /\ last.err.name = "InstantiationError"
  /\ injs[last.inj].objs[2] = UNDEFINED

\* ------------------------------------------------------------- C34
\* Class n has a constructor that only delegates to its parent: it
\* declares none, or one that only forwards its arguments.
Delegates(n) ==
  types[n].form \in {"extendsNoCtor", "extendsNoCtorNamesCtor",
                     "extendsDelegateCtor", "es5Delegate"}

\* The nearest class, from n upwards, that declares its own constructor;
\* 0 when the walk reaches the root without finding one.
RECURSIVE NearestOwnCtor(_)
NearestOwnCtor(n) ==
  IF n = 0 THEN 0
  ELSE IF Delegates(n) THEN NearestOwnCtor(types[n].parent) ELSE n

\* The parameter list class n declares itself: its decorators' metadata
\* when it has some, else one undefined per declared parameter.
OwnList(n) ==
  IF types[n].paramTypes.defined \/ types[n].paramAnnotations.defined
    THEN _zipTypesAndAnnotations(types[n].paramTypes,
                                 types[n].paramAnnotations)
    ELSE [k \in 1..types[n].length |-> UndefinedEntry]

\* C34 as stated: parameters of a class whose constructor only delegates
\* returns the list of the nearest ancestor that declares its own
\* constructor, the empty list when there is none; parameters of a class
\* with its own constructor returns its own list, whatever its parent
\* declares; and the call changes no class's metadata, so that parameters
\* of every class (the parent included) returns after it what it
\* returned before.
C34_InheritedParameters ==
  [][(last'.op = "parameters" /\ last'.arg.tag = "type") =>
       LET n == last'.arg.n
       IN  /\ Delegates(n) =>
                last'.val.items
                  = IF NearestOwnCtor(n) = 0
                      THEN <<>>
                      ELSE OwnList(NearestOwnCtor(n))
           /\ ~Delegates(n) => last'.val.items = OwnList(n)
           /\ types' = types
           /\ \A k \in 1..Len(types) :
                parameters(types', TypeRef(k))
                  = parameters(types, TypeRef(k))]_vars

\* No class from n upwards is of a form the expressions take for a class
\* with a constructor although it declares none.
RECURSIVE Recognised(_)
Recognised(n) ==
  \/ n = 0
  \/ /\ types[n].form # "extendsNoCtorNamesCtor"
     /\ Recognised(types[n].parent)

\* What the code does: the statement of C34 holds of the classes whose
\* chain the expressions recognise, and no call changes the metadata.
C34_RecognisedForms ==
  [][(last'.op = "parameters" /\ last'.arg.tag = "type") =>
       LET n == last'.arg.n
       IN  /\ (Recognised(n) /\ Delegates(n)) =>
                last'.val.items
                  = IF NearestOwnCtor(n) = 0
                      THEN <<>>
                      ELSE OwnList(NearestOwnCtor(n))
           /\ ~Delegates(n) => last'.val.items = OwnList(n)
           /\ types' = types]_vars

\* Parent <- (class without constructor whose method calls
\* this.constructor()): parameters of the child returned the empty list,
\* not the two parameters of Parent.
C34_NotInherited ==
  /\ last.op = "parameters" /\ last.arg.tag = "type" /\ last.arg.n = 2
  /\ types[1].paramTypes = Defined(<<"A", "B">>)
  /\ types[2].parent = 1 /\ types[2].form = "extendsNoCtorNamesCtor"
  /\ last.val.items = <<>>

\* Parent <- ChildWithCtor <- (class with delegating constructor):
\* parameters of the youngest returned the list of ChildWithCtor, not
\* that of Parent.
C34_Witness ==
  /\ last.op = "parameters" /\ last.arg.tag = "type" /\ last.arg.n = 3
  /\ Len(types) = 3
  /\ types[1].form = "class" /\ types[1].paramTypes = Defined(<<"A", "B">>)
  /\ types[2].parent = 1 /\ types[2].form = "extendsCtor"
  /\ types[2].paramTypes = Defined(<<"C">>)
  /\ types[3].parent = 2 /\ types[3].form = "extendsDelegateCtor"
  /\ last.val.items = <<Entry(<<"C", "@c">>)>>

====
